---- MODULE Spec2Model ----
(***************************************************************************)
(* Staking ("Martingale") state machine of the auto-trader: the lane      *)
(* engine (enhanced_martingale.py) over the Ledger (db/database_manager.py)*)
(* driven by the TradeManager (trade_manager.py), by a caller of the       *)
(* engine's public methods, and by the legacy signal path (detectsignal.py,*)
(* bot.py, worker.py).                                                     *)
(*                                                                         *)
(* Amounts are fixed point: one cent is 2^8 units, so that                 *)
(* base * multiplier^k is exact for the multipliers used (2.5 and 2).      *)
(* A raised Python exception is a result record with raised = TRUE.        *)
(***************************************************************************)
EXTENDS Integers, Sequences, FiniteSets, TLC

\* ------------------------------------------------------------------ bounds
\* Number of orders the broker accepts in one behaviour (trade ids 1..MaxTrades).
MaxTrades == 3
\* Number of trades a caller of the engine's methods places in one behaviour.
MaxClientTrades == 3
\* Number of trades the TradeManager places in one behaviour.
MaxManaged == 2

\* Number of send_command calls in one behaviour.
MaxRequests == 2
\* Number of signals the signal handler places while send_command calls are made.
MaxChannelTrades == 1

Accounts == {"pelly_demo", "tonami_demo"}
Symbols == {"EURUSD_otc", "GBPUSD_otc", "BITCOIN_otc"}
Results == {"win", "loss", "draw"}
\* The (account, instrument) pairs for which signals reach the TradeManager.
Signals == {<<"pelly_demo", "EURUSD_otc">>, <<"pelly_demo", "GBPUSD_otc">>,
            <<"pelly_demo", "BITCOIN_otc">>, <<"tonami_demo", "EURUSD_otc">>}

\* The pairs for which a caller of the engine's methods asks for a stake.
ClientSignals == {<<"pelly_demo", "EURUSD_otc">>, <<"pelly_demo", "GBPUSD_otc">>,
                  <<"tonami_demo", "EURUSD_otc">>}

\* lane_id None
NoLane == 0
\* trade id None
NoTrade == 0

Cent == 2^8
Dollar == 100 * Cent

\* max_level passed by _create_new_lane_for_loss
DefaultMaxLevel == 7
\* settings.get('max_daily_lanes', 10) and the column default
DefaultMaxDailyLanes == 10

VARIABLES
    cfg,            \* accounts / trading_settings rows and the engine's switches
    lanes,          \* Ledger: martingale_lanes rows in created_at order; lane_id = index
    tradesDb,       \* Ledger: trades rows, trade_id -> result
    saved,          \* Ledger: persisted legacy state per account
    pending,        \* engine.pending_trade_results
    active,         \* engine.active_trades_per_account
    nextId,         \* next trade id the broker hands out
    orders,         \* per trade: the account it was bought on, its worker monitor thread
    active_trades,  \* TradeManager.active_trades
    lstate,         \* detectsignal._account_martingale_states
    lock,           \* detectsignal._current_active_trade
    lpending,       \* detectsignal._pending_trade_results (real trade ids)
    respQ,          \* per worker: frames in its response queue
    processed,      \* history: trade ids handle_trade_result has taken out of pending
    applied,        \* history: trade id -> number of times its result changed staking state
    timedOut,       \* history: trade ids whose monitor timeout has been handled
    held,           \* a caller's stake decision whose order is at the broker
    cmdQ,           \* per worker: commands in its command queue
    calls,          \* send_command calls waiting for their response
    nextReq,        \* names the next request id (uuid4)
    returned,       \* history: worker responses returned by send_command, by call
    alive,          \* per worker: worker_info['process'].is_alive()
    tmThreads,      \* TradeManager: its lock and the positions of its two threads
    boot,           \* bot.main: how far the startup has come and what it has loaded
    buyCall,        \* worker: the buy command in progress, its api.buy threads, the broker's orders per command
    sendErrors,     \* history: results send_command made itself, without a worker response
    conn,           \* per process: its engine's call in progress on its Ledger connection
    written,        \* history: (lane, trade) pairs whose lane UPDATE has been executed
    repeated,       \* history: the TradeManager polled or delivered a result the worker had processed
    scen            \* history: progress of the base/2.50/6.25 scenario

vars == <<cfg, lanes, tradesDb, saved, pending, active, nextId, orders,
          active_trades, lstate, lock, lpending, respQ, processed,
          applied, timedOut, repeated, scen, held, conn, written,
          cmdQ, calls, nextReq, returned, alive, sendErrors, tmThreads, boot,
          buyCall>>

\* --------------------------------------------------------------- settings
\* One row of accounts per account (get_all_accounts); the values are configuration.
AccountRow(a) ==
    IF a = "pelly_demo"
    THEN [base_amount |-> Dollar, mult_num |-> 5, mult_den |-> 2]
    ELSE [base_amount |-> 2 * Dollar, mult_num |-> 2, mult_den |-> 1]

\* The engine's defaults (EnhancedMartingaleManager.__init__) with the
\* trading_settings column defaults.
DefaultCfg ==
    [global_martingale_enabled |-> TRUE,
     single_trade_policy_enabled |-> FALSE,
     concurrent_trading_enabled |-> FALSE,
     max_concurrent_lanes |-> 3,
     lane_assignment_strategy |-> "fifo",
     auto_create_lanes |-> TRUE,
     max_daily_lanes |-> DefaultMaxDailyLanes,
     martingale_enabled |-> TRUE]

\* Configurations an operator can set, each differing from the defaults in one setting.
Configs ==
    { DefaultCfg,
      [DefaultCfg EXCEPT !.lane_assignment_strategy = "round_robin"],
      [DefaultCfg EXCEPT !.lane_assignment_strategy = "symbol_priority"],
      [DefaultCfg EXCEPT !.single_trade_policy_enabled = TRUE],
      [DefaultCfg EXCEPT !.concurrent_trading_enabled = TRUE],
      [DefaultCfg EXCEPT !.max_concurrent_lanes = 1],
      [DefaultCfg EXCEPT !.global_martingale_enabled = FALSE],
      [DefaultCfg EXCEPT !.auto_create_lanes = FALSE],
      [DefaultCfg EXCEPT !.martingale_enabled = FALSE] }

\* ------------------------------------------------------------- arithmetic
RECURSIVE PowAmount(_, _, _, _)
\* base * (num/den)^e; e <= 0 gives base * (num/den)^0 only for e = 0
PowAmount(base, num, den, e) ==
    IF e <= 0 THEN base ELSE (PowAmount(base, num, den, e - 1) * num) \div den

Min(S) == CHOOSE x \in S : \A y \in S : x <= y

\* ----------------------------------------------------------------- Ledger
\* db.database_config: the store the processes open
DATABASE_TYPE == "mysql"

\* A value written to a DECIMAL(10,2) column: MySQL rounds an insert to an exact type
\* half away from zero; the REAL column of sqlite keeps the value.
StoredAmount(amount) ==
    IF DATABASE_TYPE = "mysql"
    THEN LET q == amount \div Cent
             r == amount % Cent
         IN  IF 2 * r >= Cent THEN (q + 1) * Cent ELSE q * Cent
    ELSE amount

create_martingale_lane(ls, account, symbol, row, max_level) ==
    Append(ls, [account |-> account, symbol |-> symbol, status |-> "active",
                current_level |-> 1, base_amount |-> row.base_amount,
                current_amount |-> StoredAmount(row.base_amount),
                mult_num |-> row.mult_num, mult_den |-> row.mult_den,
                max_level |-> max_level, total_invested |-> 0,
                trade_ids |-> << >>])

\* lane ids of the rows with status = 'active' (ORDER BY created_at ASC is index order)
get_active_martingale_lanes(ls, account, symbol) ==
    { i \in 1..Len(ls) : /\ ls[i].status = "active"
                         /\ ls[i].account = account
                         /\ (symbol = "" \/ ls[i].symbol = symbol) }

\* min(lanes, key=len(trade_ids)): the oldest among the lanes with fewest trades
LeastTrades(ls, S) ==
    Min({ i \in S : \A j \in S : Len(ls[i].trade_ids) <= Len(ls[j].trade_ids) })

get_next_lane_for_assignment(ls, strategy, account, symbol) ==
    LET symbol_lanes == get_active_martingale_lanes(ls, account, symbol)
        all_lanes == get_active_martingale_lanes(ls, account, "")
    IN  IF strategy = "symbol_priority" /\ symbol_lanes # {}
        THEN Min(symbol_lanes)
        ELSE IF all_lanes = {} THEN NoLane
        ELSE IF strategy = "round_robin" THEN LeastTrades(ls, all_lanes)
        ELSE Min(all_lanes)

\* the mutation: the UPDATE changes no row
LaneRowUntouched(ls, lane_id, trade_id, trade_amount) == ls

update_martingale_lane_on_trade(ls, lane_id, trade_id, trade_amount) ==
    IF lane_id \notin 1..Len(ls) THEN ls
    ELSE LET l == ls[lane_id]
             next_level == l.current_level + 1
         IN  [ls EXCEPT ![lane_id] =
                [l EXCEPT !.trade_ids = Append(l.trade_ids, trade_id),
                          !.total_invested = StoredAmount(l.total_invested + trade_amount),
                          !.current_level = next_level,
                          !.current_amount =
                              StoredAmount(PowAmount(l.base_amount, l.mult_num, l.mult_den,
                                                     next_level - 1))]]

\* the mutation: UPDATE ... WHERE account_name = (that of lane_id)
complete_lanes_of_account(ls, lane_id) ==
    [i \in 1..Len(ls) |-> IF ls[i].account = ls[lane_id].account
                          THEN [ls[i] EXCEPT !.status = "completed"] ELSE ls[i]]

\* UPDATE martingale_lanes SET status = 'completed' WHERE lane_id = ...
complete_martingale_lane(ls, lane_id) ==
    [i \in 1..Len(ls) |-> IF i = lane_id THEN [ls[i] EXCEPT !.status = "completed"] ELSE ls[i]]

\* COUNT(*) of the account's lanes created in the last day
get_lane_statistics(ls, account) ==
    Cardinality({ i \in 1..Len(ls) : ls[i].account = account })


\* The methods of class DatabaseManager that the engine calls and the class defines.
\* get_all_martingale_lanes, get_inactive_martingale_lanes and
\* update_martingale_lane_status are called by the engine but defined nowhere.
DatabaseManagerMethods ==
    { "get_trading_settings", "get_all_accounts", "get_enabled_accounts",
      "get_active_martingale_lanes", "get_next_lane_for_assignment",
      "update_martingale_lane_on_trade", "complete_martingale_lane",
      "create_martingale_lane", "get_lane_statistics", "update_trading_settings" }

\* self.db_manager.<name>(...) raises AttributeError when the class has no such method
AttributeError(name) == name \notin DatabaseManagerMethods

\* ----------------------------------------------------------------- engine
\* _get_all_lanes: the cache is empty on the first call, so the Ledger is asked
_get_all_lanes(account) ==
    IF AttributeError("get_all_martingale_lanes")
    THEN [raised |-> TRUE, lanes |-> {}]
    ELSE [raised |-> FALSE, lanes |-> { i \in 1..Len(lanes) : lanes[i].account = account }]

_get_avaliable_lanes(account) ==
    IF AttributeError("get_inactive_martingale_lanes")
    THEN [raised |-> TRUE, lanes |-> {}]
    ELSE [raised |-> FALSE,
          lanes |-> { i \in 1..Len(lanes) : lanes[i].account = account
                                             /\ lanes[i].status = "inactive" }]

\* "allow", "deny", or "raise" when the call ends in an exception
can_place_new_trade(account) ==
    IF ~cfg.global_martingale_enabled THEN "allow"
    ELSE IF cfg.single_trade_policy_enabled
         THEN (IF active[account] THEN "deny" ELSE "allow")
    ELSE IF ~cfg.concurrent_trading_enabled
         THEN (IF active[account] THEN "deny" ELSE "allow")
    ELSE IF _get_all_lanes(account).raised \/ _get_avaliable_lanes(account).raised
         THEN "raise"
    ELSE IF _get_avaliable_lanes(account).lanes # {} THEN "allow"
    ELSE IF Cardinality(_get_all_lanes(account).lanes) < cfg.max_concurrent_lanes
         THEN "allow" ELSE "deny"

\* the mutation: the level of the lane is ignored
LaneStakeAtBase(l) == l.base_amount

\* lane['base_amount'] * (lane['multiplier'] ** (lane['current_level'] - 1))
LaneStake(l) == PowAmount(l.base_amount, l.mult_num, l.mult_den, l.current_level - 1)

_get_account_base_amount(account) == AccountRow(account).base_amount

\* (amount, lane_id); lane_id = NoLane for a base trade; amount = 0 when blocked
get_trade_amount_for_signal(account, symbol) ==
    IF ~cfg.global_martingale_enabled
    THEN [raised |-> FALSE, amount |-> _get_account_base_amount(account), lane_id |-> NoLane]
    ELSE IF can_place_new_trade(account) = "raise"
    THEN [raised |-> TRUE, amount |-> 0, lane_id |-> NoLane]
    ELSE IF can_place_new_trade(account) = "deny"
    THEN [raised |-> FALSE, amount |-> 0, lane_id |-> NoLane]
    ELSE LET lane == get_next_lane_for_assignment(lanes, cfg.lane_assignment_strategy,
                                                  account, symbol)
         IN  IF lane # NoLane
             THEN [raised |-> FALSE, amount |-> LaneStake(lanes[lane]), lane_id |-> lane]
             ELSE [raised |-> FALSE, amount |-> _get_account_base_amount(account),
                   lane_id |-> NoLane]

\* "return 1.0  # Default fallback": no row of accounts was read
DefaultBaseAmount == Dollar

\* get_trade_amount_for_signal while the queries of the Ledger fail: every
\* DatabaseManager read catches the error and answers with its default (no accounts,
\* no lane, the default trading settings with concurrent_trading_enabled = True)
get_trade_amount_for_signal_unavailable(account, symbol) ==
    IF ~cfg.global_martingale_enabled
    THEN [raised |-> FALSE, amount |-> DefaultBaseAmount, lane_id |-> NoLane]
    ELSE IF cfg.single_trade_policy_enabled
    THEN [raised |-> FALSE, amount |-> IF active[account] THEN 0 ELSE DefaultBaseAmount,
          lane_id |-> NoLane]
    ELSE IF AttributeError("get_all_martingale_lanes")
            \/ AttributeError("get_inactive_martingale_lanes")
    THEN [raised |-> TRUE, amount |-> 0, lane_id |-> NoLane]
    ELSE [raised |-> FALSE, amount |-> DefaultBaseAmount, lane_id |-> NoLane]

PendingRecord(trade_id, account, symbol, amount, lane_id) ==
    [trade_id |-> trade_id, account |-> account, symbol |-> symbol,
     amount |-> amount, lane_id |-> lane_id]

IsPending(pend, trade_id) == \E p \in pend : p.trade_id = trade_id

PendingInfo(pend, trade_id) == CHOOSE p \in pend : p.trade_id = trade_id

\* self.pending_trade_results[trade_id] = {...}
RegisterPending(pend, rec) == { p \in pend : p.trade_id # rec.trade_id } \cup {rec}

\* the mutation: the entry is left in pending_trade_results
KeepPending(pend, trade_id) == pend

\* del self.pending_trade_results[trade_id]
DeletePending(pend, trade_id) == { p \in pend : p.trade_id # trade_id }

\* the state handle_trade_placed leaves: [lanes, pending, active]
handle_trade_placed(ls, pend, act, trade_id, account, symbol, amount, lane_id) ==
    [lanes |-> IF lane_id # NoLane
               THEN update_martingale_lane_on_trade(ls, lane_id, trade_id, amount)
               ELSE ls,
     pending |-> RegisterPending(pend, PendingRecord(trade_id, account, symbol, amount, lane_id)),
     active |-> [act EXCEPT ![account] = TRUE]]

\* [raised, ret, lanes, applied]: applied tells whether a lane was created or completed
_handle_winning_trade(ls, lane_id) ==
    IF lane_id # NoLane
    THEN [raised |-> FALSE, ret |-> TRUE, lanes |-> complete_martingale_lane(ls, lane_id),
          applied |-> TRUE]
    ELSE [raised |-> FALSE, ret |-> TRUE, lanes |-> ls, applied |-> FALSE]

_create_new_lane_for_loss(ls, account, symbol, failed_trade_id, failed_amount) ==
    IF ~cfg.auto_create_lanes
    THEN [raised |-> FALSE, ret |-> TRUE, lanes |-> ls, applied |-> FALSE]
    ELSE IF get_lane_statistics(ls, account) >= cfg.max_daily_lanes
    THEN [raised |-> FALSE, ret |-> TRUE, lanes |-> ls, applied |-> FALSE]
    ELSE LET created == create_martingale_lane(ls, account, symbol, AccountRow(account),
                                               DefaultMaxLevel)
             lane_id == Len(created)
         IN  [raised |-> FALSE, ret |-> TRUE,
              lanes |-> IF failed_trade_id # NoTrade /\ failed_amount > 0
                        THEN update_martingale_lane_on_trade(created, lane_id,
                                                             failed_trade_id, failed_amount)
                        ELSE created,
              applied |-> TRUE]

_handle_losing_trade(ls, trade_id, account, symbol, lane_id, amount) ==
    IF ~cfg.martingale_enabled
    THEN [raised |-> FALSE, ret |-> TRUE, lanes |-> ls, applied |-> FALSE]
    ELSE IF lane_id # NoLane
    THEN IF /\ lane_id \in get_active_martingale_lanes(ls, account, "")
            /\ ls[lane_id].current_level >= ls[lane_id].max_level
         THEN [raised |-> FALSE, ret |-> TRUE,
               lanes |-> complete_martingale_lane(ls, lane_id), applied |-> TRUE]
         ELSE IF AttributeError("update_martingale_lane_status")
         THEN [raised |-> TRUE, ret |-> FALSE, lanes |-> ls, applied |-> FALSE]
         ELSE [raised |-> FALSE, ret |-> TRUE,
               lanes |-> [ls EXCEPT ![lane_id].status = "inactive"], applied |-> FALSE]
    ELSE _create_new_lane_for_loss(ls, account, symbol, trade_id, amount)

\* [found, raised, ret, lanes, pending, active, applied]
handle_trade_result(ls, pend, act, trade_id, result) ==
    IF ~IsPending(pend, trade_id)
    THEN [found |-> FALSE, raised |-> FALSE, ret |-> FALSE, lanes |-> ls,
          pending |-> pend, active |-> act, applied |-> FALSE]
    ELSE LET info == PendingInfo(pend, trade_id)
             r == IF result = "win" THEN _handle_winning_trade(ls, info.lane_id)
                  ELSE IF result = "loss"
                  THEN _handle_losing_trade(ls, trade_id, info.account, info.symbol,
                                            info.lane_id, info.amount)
                  ELSE [raised |-> FALSE, ret |-> FALSE, lanes |-> ls, applied |-> FALSE]
         IN  [found |-> TRUE, raised |-> r.raised, ret |-> r.ret, lanes |-> r.lanes,
              pending |-> DeletePending(pend, trade_id),
              active |-> [act EXCEPT ![info.account] = FALSE],
              applied |-> r.applied]

\* ------------------------------------------- legacy queue (detectsignal.py)
\* module defaults of detectsignal
_martingale_enabled == TRUE

_single_trade_policy_enabled == TRUE

\* round(amount, 2): to the nearest cent, a tie goes to the even cent
Round2(amount) ==
    LET q == amount \div Cent
        r == amount % Cent
    IN  IF 2 * r > Cent \/ (2 * r = Cent /\ q % 2 = 1) THEN (q + 1) * Cent ELSE q * Cent

\* the mutation: every stake is the base amount
StakeAlwaysBase(worker_name, consecutive_losses) == AccountRow(worker_name).base_amount

_calculate_next_martingale_amount(worker_name, consecutive_losses) ==
    LET row == AccountRow(worker_name)
    IN  IF consecutive_losses = 0 THEN row.base_amount
        ELSE Round2(PowAmount(row.base_amount, row.mult_num, row.mult_den, consecutive_losses))

\* [amount, lstate]: the first queued amount is popped, the pop is not saved
_get_trade_amount_for_new_signal(ls, worker_name) ==
    IF ~_martingale_enabled \/ ~cfg.martingale_enabled
    THEN [amount |-> AccountRow(worker_name).base_amount, lstate |-> ls]
    ELSE IF ls[worker_name].martingale_queue # << >>
    THEN [amount |-> Head(ls[worker_name].martingale_queue),
          lstate |-> [ls EXCEPT ![worker_name].martingale_queue = Tail(@)]]
    ELSE [amount |-> _calculate_next_martingale_amount(worker_name,
                                                       ls[worker_name].consecutive_losses),
          lstate |-> ls]

\* UPDATE trades SET result = ... WHERE trade_id = ...: no row, no change
update_trade_result(db, trade_id, result) ==
    IF db[trade_id] = "none" THEN db ELSE [db EXCEPT ![trade_id] = result]

\* L = [lstate, saved, lock, lpending, tradesDb]; the result adds applied
_handle_trade_result(L, trade_id, result, worker_name) ==
    LET st == L.lstate[worker_name]
        st1 == IF result = "win"
               THEN [consecutive_losses |-> 0, martingale_queue |-> << >>]
               ELSE IF result = "loss"
               THEN [consecutive_losses |-> st.consecutive_losses + 1,
                     martingale_queue |->
                         Append(st.martingale_queue,
                                _calculate_next_martingale_amount(worker_name,
                                                                  st.consecutive_losses + 1))]
               ELSE st
        changed == _martingale_enabled /\ result \in {"win", "loss"}
    IN  [lstate |-> IF changed THEN [L.lstate EXCEPT ![worker_name] = st1] ELSE L.lstate,
         saved |-> IF changed THEN [L.saved EXCEPT ![worker_name] = st1] ELSE L.saved,
         lock |-> IF _single_trade_policy_enabled /\ L.lock = trade_id THEN NoTrade ELSE L.lock,
         lpending |-> L.lpending \ {trade_id},
         tradesDb |-> update_trade_result(L.tradesDb, trade_id, result),
         applied |-> changed]

\* ---------------------------------------------------------- TradeManager
\* the mutation: the legacy handler is called whatever the engine returned
AlwaysFallsBack(handled) == TRUE

\* "if handled: ... return", else the legacy handler is called
FallsBackToLegacy(handled) == ~handled

\* E = [lanes, pending, active], L as above; an exception of the engine is caught and logged
_notify_martingale_system(E, L, trade_id, result, account) ==
    LET r == handle_trade_result(E.lanes, E.pending, E.active, trade_id, result)
        toLegacy == ~r.raised /\ FallsBackToLegacy(r.ret)
        l == IF toLegacy THEN _handle_trade_result(L, trade_id, result, account)
             ELSE [lstate |-> L.lstate, saved |-> L.saved, lock |-> L.lock,
                   lpending |-> L.lpending, tradesDb |-> L.tradesDb, applied |-> FALSE]
    IN  [lanes |-> r.lanes, pending |-> r.pending, active |-> r.active,
         found |-> r.found, raised |-> r.raised,
         lstate |-> l.lstate, saved |-> l.saved, lock |-> l.lock,
         lpending |-> l.lpending, tradesDb |-> l.tradesDb,
         applications |-> (IF r.applied THEN 1 ELSE 0) + (IF l.applied THEN 1 ELSE 0)]

\* ------------------------------------------------------------- worker.py
NoOrder == [account |-> "", monitor |-> "none"]

NewOrder(account, monitor) == [account |-> account, monitor |-> monitor]

\* the worker process has an engine of its own, on which handle_trade_placed is never called
worker_pending_trade_results == {}

\* parsed_status = 'loss' if status == 'loose' else status
parsed_status(status) == IF status = "loose" THEN "loss" ELSE status

\* What api.check_win may answer for a trade: unknown until the broker has settled it,
\* and from then on the settled status, which the trades row records.
BrokerAnswers(db, trade_id) ==
    IF db[trade_id] = "pending" THEN {"unknown", "win", "loose"}
    ELSE IF db[trade_id] = "win" THEN {"win"}
    ELSE IF db[trade_id] = "loss" THEN {"loose"}
    ELSE {}

\* the worker's handling of a broker status: [tradesDb, lanes]
process_trade_result(db, ls, trade_id, status) ==
    LET w == handle_trade_result(ls, worker_pending_trade_results, active, trade_id,
                                 parsed_status(status))
    IN  IF status \in {"win", "loose"}
        THEN [tradesDb |-> update_trade_result(db, trade_id, parsed_status(status)),
              lanes |-> w.lanes]
        ELSE [tradesDb |-> db, lanes |-> ls]

\* the reply of the worker's check_win handler
check_win_reply(trade_id, status) ==
    [status |-> "success",
     data |-> [trade_id |-> trade_id, profit |-> 0, result |-> status]]

\* dict.get(key): None when the key is absent
DictGet(d, key) == IF key \in DOMAIN d THEN d[key] ELSE "None"

\* str(uuid.uuid4()): the n-th id generated
RequestId(n) == [id |-> n, suffix |-> ""]

\* request_id of no command
NoRequest == RequestId(0)

\* f'{request_id}_result', f'{request_id}_timeout'
Suffixed(request_id, suffix) == [request_id EXCEPT !.suffix = suffix]

\* the id of the monitor_trade command that started the monitor thread of trade t
MonitorRequest(t) == [id |-> 0 - t, suffix |-> ""]

\* a frame of a worker's response queue
Frame(request_id, status, trade_id, result) ==
    [request_id |-> request_id, status |-> status, trade_id |-> trade_id, result |-> result]

\* ---------------------------------------------------------------- history
\* The scenario of one account and one instrument through the TradeManager:
\* decision, loss, decision, loss, decision, win, decision.
ScenAccount == "pelly_demo"

ScenSymbol == "EURUSD_otc"

ScenOff == [stage |-> "off", lane |-> NoLane, trade |-> NoTrade]

ScenBad == [stage |-> "bad", lane |-> NoLane, trade |-> NoTrade]

ScenInit(c) ==
    IF /\ c.global_martingale_enabled /\ c.martingale_enabled
       /\ c.auto_create_lanes /\ ~c.concurrent_trading_enabled
    THEN [stage |-> "s0", lane |-> NoLane, trade |-> NoTrade]
    ELSE ScenOff

\* the decision the scenario names at each of its decision points
ScenExpected(sc) ==
    IF sc.stage = "l1" THEN [amount |-> (5 * Dollar) \div 2, lane_id |-> sc.lane]
    ELSE IF sc.stage = "l2" THEN [amount |-> (25 * Dollar) \div 4, lane_id |-> sc.lane]
    ELSE [amount |-> Dollar, lane_id |-> NoLane]

ScenPlaced(stage) ==
    IF stage = "s0" THEN "d1" ELSE IF stage = "l1" THEN "d2"
    ELSE IF stage = "l2" THEN "d3" ELSE "d4"

\* a stake decision d of the TradeManager for (a, s); trade_id is the trade it placed
ScenDecision(sc, a, s, d, trade_id) ==
    IF sc.stage \in {"off", "bad", "d4"} \/ a # ScenAccount THEN sc
    ELSE IF s # ScenSymbol \/ sc.stage \in {"d1", "d2", "d3"} THEN ScenOff
    ELSE IF \/ d.raised
            \/ d.amount # ScenExpected(sc).amount
            \/ d.lane_id # ScenExpected(sc).lane_id
    THEN ScenBad
    ELSE IF trade_id = NoTrade THEN sc
    ELSE [stage |-> ScenPlaced(sc.stage), lane |-> sc.lane, trade |-> trade_id]

\* a result the TradeManager delivered for a trade of account a; lost tells that the
\* broker had reported the trade as lost
ScenResult(sc, a, trade_id, result, lost, lanesAfter) ==
    IF sc.stage \in {"off", "bad", "d4"} \/ a # ScenAccount THEN sc
    ELSE IF trade_id # sc.trade THEN ScenOff
    ELSE IF result = "loss" /\ lost /\ sc.stage = "d1"
    THEN LET ls == get_active_martingale_lanes(lanesAfter, ScenAccount, ScenSymbol)
         IN  IF ls = {} THEN ScenBad
             ELSE [stage |-> "l1", lane |-> Min(ls), trade |-> NoTrade]
    ELSE IF result = "loss" /\ lost /\ sc.stage = "d2"
    THEN [stage |-> "l2", lane |-> sc.lane, trade |-> NoTrade]
    ELSE IF result = "win" /\ sc.stage = "d3"
    THEN IF lanesAfter[sc.lane].status = "completed"
         THEN [stage |-> "w3", lane |-> sc.lane, trade |-> NoTrade]
         ELSE ScenBad
    ELSE ScenOff

\* The processes that construct an engine over a DatabaseManager of their own.
Processes == {"bot", "worker"}

\* no call in progress
Idle == [stage |-> "idle", lane_id |-> NoLane, trade_id |-> NoTrade, amount |-> 0,
         row |-> << >>]

\* no stake decision is waiting for its order
NoDecision == [account |-> "", symbol |-> "", amount |-> 0, lane_id |-> NoLane]

InitialLegacyState ==
    [a \in Accounts |-> [consecutive_losses |-> 0, martingale_queue |-> << >>]]

\* TradeManager.__init__ and start: self.lock is free, the scheduler thread waits for
\* a trade request and the monitor thread sleeps
ThreadsIdle ==
    [mutex |-> "free",
     sched |-> [stage |-> "idle", todo |-> << >>, trade |-> NoTrade],
     mon |-> [stage |-> "idle", todo |-> {}, trade |-> NoTrade]]

\* po_worker_main waits for a command: no buy is in progress, no api.buy thread runs,
\* the broker has no order of any command
BuyIdle ==
    [request |-> NoRequest, attempt |-> 0, abandoned |-> {},
     placed |-> [n \in 1..MaxRequests |-> 0], late |-> {}]

\* bot.main has run to its end: the Ledger is open, a worker runs for every account and
\* the signal detector listens
Listening ==
    [stage |-> "listening", db |-> TRUE, accounts |-> Accounts]

\* The state the running system is constructed in, whatever the startup did
InitProgram ==
    /\ cfg \in Configs
    /\ lanes = << >>
    /\ tradesDb = [t \in 1..MaxTrades |-> "none"]
    /\ saved = InitialLegacyState
    /\ pending = {}
    /\ active = [a \in Accounts |-> FALSE]
    /\ nextId = 1
    /\ orders = [t \in 1..MaxTrades |-> NoOrder]
    /\ active_trades = {}
    /\ lstate = InitialLegacyState
    /\ lock = NoTrade
    /\ lpending = {}
    /\ respQ = [a \in Accounts |-> << >>]
    /\ processed = {}
    /\ applied = [t \in 1..MaxTrades |-> 0]
    /\ timedOut = {}
    /\ repeated = FALSE
    /\ scen = ScenInit(cfg)
    /\ held = NoDecision
    /\ conn = [p \in Processes |-> Idle]
    /\ written = {}
    /\ cmdQ = [a \in Accounts |-> << >>]
    /\ calls = {}
    /\ nextReq = 1
    /\ returned = {}
    /\ alive = [a \in Accounts |-> TRUE]
    /\ sendErrors = {}
    /\ tmThreads = ThreadsIdle
    /\ buyCall = BuyIdle

Init ==
    /\ InitProgram
    /\ boot = Listening

\* -------------------------------------------- a caller of the engine's API
\* One caller: get_trade_amount_for_signal, and handle_trade_placed with the decision it
\* returned once the order is accepted; a blocked or failed decision places nothing
ClientTrade(a, s) ==
    /\ nextId <= MaxClientTrades
    /\ LET d == get_trade_amount_for_signal(a, s)
           p == handle_trade_placed(lanes, pending, active, nextId, a, s, d.amount, d.lane_id)
       IN  /\ ~d.raised
           /\ d.amount > 0
           /\ lanes' = p.lanes
           /\ pending' = p.pending
           /\ active' = p.active
    /\ nextId' = nextId + 1
    /\ UNCHANGED <<buyCall, boot, tmThreads, alive, sendErrors, cfg, tradesDb, saved, orders, active_trades, lstate, lock, lpending,
                   respQ, processed, applied, timedOut, repeated, scen, held, conn, written,
                   cmdQ, calls, nextReq, returned>>

\* Two callers at once for one account: the engine's lock is released between the
\* decision and the placement, so both decide before either has placed
ClientRace(a, s1, s2) ==
    /\ <<a, s1>> \in ClientSignals /\ <<a, s2>> \in ClientSignals
    /\ nextId + 1 <= MaxClientTrades
    /\ LET d1 == get_trade_amount_for_signal(a, s1)
           d2 == get_trade_amount_for_signal(a, s2)
           p1 == handle_trade_placed(lanes, pending, active, nextId, a, s1,
                                     d1.amount, d1.lane_id)
           p2 == handle_trade_placed(p1.lanes, p1.pending, p1.active, nextId + 1, a, s2,
                                     d2.amount, d2.lane_id)
       IN  /\ ~d1.raised /\ ~d2.raised
           /\ d1.amount > 0 /\ d2.amount > 0
           /\ lanes' = p2.lanes
           /\ pending' = p2.pending
           /\ active' = p2.active
    /\ nextId' = nextId + 2
    /\ UNCHANGED <<buyCall, boot, tmThreads, alive, sendErrors, cfg, tradesDb, saved, orders, active_trades, lstate, lock, lpending,
                   respQ, processed, applied, timedOut, repeated, scen, held, conn, written,
                   cmdQ, calls, nextReq, returned>>

\* A caller has its stake decision and sends the order to the broker: the engine's lock
\* is not held meanwhile, and other calls run before the trade is registered
ClientDecide(a, s) ==
    /\ held = NoDecision
    /\ nextId <= MaxClientTrades
    /\ LET d == get_trade_amount_for_signal(a, s)
       IN  /\ ~d.raised
           /\ d.amount > 0
           /\ held' = [account |-> a, symbol |-> s, amount |-> d.amount, lane_id |-> d.lane_id]
    /\ UNCHANGED <<buyCall, boot, tmThreads, alive, sendErrors, cfg, lanes, tradesDb, saved, pending, active, nextId, orders, active_trades,
                   lstate, lock, lpending, respQ, processed, applied, timedOut, repeated, scen, conn, written,
                   cmdQ, calls, nextReq, returned>>

\* The broker has accepted the order of the waiting decision: handle_trade_placed
ClientPlaced ==
    /\ held # NoDecision
    /\ nextId <= MaxClientTrades
    /\ LET p == handle_trade_placed(lanes, pending, active, nextId, held.account, held.symbol,
                                    held.amount, held.lane_id)
       IN  /\ lanes' = p.lanes
           /\ pending' = p.pending
           /\ active' = p.active
    /\ nextId' = nextId + 1
    /\ held' = NoDecision
    /\ UNCHANGED <<buyCall, boot, tmThreads, alive, sendErrors, cfg, tradesDb, saved, orders, active_trades, lstate, lock, lpending,
                   respQ, processed, applied, timedOut, repeated, scen, conn, written,
                   cmdQ, calls, nextReq, returned>>

\* A caller asks for a stake while the Ledger cannot be read, and sends the order when
\* it gets an amount above 0
ClientDecideUnavailable(a, s) ==
    /\ held = NoDecision
    /\ nextId <= MaxClientTrades
    /\ LET d == get_trade_amount_for_signal_unavailable(a, s)
       IN  /\ ~d.raised
           /\ d.amount > 0
           /\ held' = [account |-> a, symbol |-> s, amount |-> d.amount, lane_id |-> d.lane_id]
    /\ UNCHANGED <<buyCall, boot, tmThreads, alive, sendErrors, cfg, lanes, tradesDb, saved, pending, active, nextId, orders, active_trades,
                   lstate, lock, lpending, respQ, processed, applied, timedOut, repeated, scen,
                   conn, written, cmdQ, calls, nextReq, returned>>

\* The Ledger writes of a result application; each catches its error and returns
\* None or False instead of raising.
LedgerWrites == {"create_martingale_lane", "update_martingale_lane_on_trade",
                 "complete_martingale_lane"}

\* handle_trade_result when the writes in fails fail: [found, raised, ret, lanes, pending,
\* active, applied]
handle_trade_result_failing(ls, pend, act, trade_id, result, fails) ==
    IF ~IsPending(pend, trade_id)
    THEN [found |-> FALSE, raised |-> FALSE, ret |-> FALSE, lanes |-> ls,
          pending |-> pend, active |-> act, applied |-> FALSE]
    ELSE LET info == PendingInfo(pend, trade_id)
             unchanged(ret) == [raised |-> FALSE, ret |-> ret, lanes |-> ls, applied |-> FALSE]
             created == create_martingale_lane(ls, info.account, info.symbol,
                                               AccountRow(info.account), DefaultMaxLevel)
             r == IF result = "win"
                  THEN IF info.lane_id # NoLane /\ "complete_martingale_lane" \in fails
                       THEN unchanged(FALSE)
                       ELSE _handle_winning_trade(ls, info.lane_id)
                  ELSE IF result # "loss" THEN unchanged(FALSE)
                  ELSE IF ~cfg.martingale_enabled THEN unchanged(TRUE)
                  ELSE IF info.lane_id # NoLane
                  THEN IF /\ info.lane_id \in get_active_martingale_lanes(ls, info.account, "")
                          /\ ls[info.lane_id].current_level >= ls[info.lane_id].max_level
                          /\ "complete_martingale_lane" \in fails
                       THEN unchanged(TRUE)
                       ELSE _handle_losing_trade(ls, trade_id, info.account, info.symbol,
                                                 info.lane_id, info.amount)
                  ELSE IF \/ ~cfg.auto_create_lanes
                          \/ get_lane_statistics(ls, info.account) >= cfg.max_daily_lanes
                  THEN unchanged(TRUE)
                  ELSE IF "create_martingale_lane" \in fails THEN unchanged(FALSE)
                  ELSE IF "update_martingale_lane_on_trade" \in fails
                  THEN [raised |-> FALSE, ret |-> TRUE, lanes |-> created, applied |-> TRUE]
                  ELSE _create_new_lane_for_loss(ls, info.account, info.symbol, trade_id,
                                                 info.amount)
         IN  [found |-> TRUE, raised |-> r.raised, ret |-> r.ret, lanes |-> r.lanes,
              pending |-> DeletePending(pend, trade_id),
              active |-> [act EXCEPT ![info.account] = FALSE],
              applied |-> r.applied]

\* A result is applied while the Ledger writes in fails fail
ClientResultFailing(t, result, fails) ==
    /\ LET r == handle_trade_result_failing(lanes, pending, active, t, result, fails)
       IN  /\ r.found
           /\ lanes' = r.lanes
           /\ pending' = r.pending
           /\ active' = r.active
           /\ processed' = processed \cup {t}
           /\ applied' = IF r.applied THEN [applied EXCEPT ![t] = @ + 1] ELSE applied
    /\ UNCHANGED <<buyCall, boot, tmThreads, alive, sendErrors, cfg, tradesDb, saved, nextId, orders, active_trades, lstate, lock, repeated,
                   lpending, respQ, timedOut, scen, held, conn, written,
                   cmdQ, calls, nextReq, returned>>

ClientResult(t, result) ==
    /\ LET r == handle_trade_result(lanes, pending, active, t, result)
       IN  /\ lanes' = r.lanes
           /\ pending' = r.pending
           /\ active' = r.active
           /\ processed' = IF r.found THEN processed \cup {t} ELSE processed
           /\ applied' = IF r.applied THEN [applied EXCEPT ![t] = @ + 1] ELSE applied
    /\ UNCHANGED <<buyCall, boot, tmThreads, alive, sendErrors, cfg, tradesDb, saved, nextId, orders, active_trades, lstate, lock, repeated,
                   lpending, respQ, timedOut, scen, held, conn, written,
                   cmdQ, calls, nextReq, returned>>

\* ------------------------------------------------- TradeManager (threads)
\* The wall clock is not a variable: a timeout that the code takes when the current
\* time exceeds a deadline may be taken at any moment.

\* _execute_trade_immediately for a signal that names one target account; buy_ok is
\* the worker's answer to the buy command
tm_execute(a, s, buy_ok) ==
    /\ buy_ok => nextId <= MaxManaged
    /\ LET d == get_trade_amount_for_signal(a, s)
           ok == ~d.raised /\ d.amount > 0 /\ buy_ok
       IN  /\ pending' = IF ok
                         THEN RegisterPending(pending,
                                  PendingRecord(nextId, a, s, d.amount, d.lane_id))
                         ELSE pending
           /\ active_trades' = IF ok THEN active_trades \cup {nextId} ELSE active_trades
           /\ orders' = IF ok THEN [orders EXCEPT ![nextId] = NewOrder(a, "none")] ELSE orders
           /\ tradesDb' = IF ok THEN [tradesDb EXCEPT ![nextId] = "pending"] ELSE tradesDb
           /\ nextId' = IF ok THEN nextId + 1 ELSE nextId
           /\ scen' = ScenDecision(scen, a, s, d, IF ok THEN nextId ELSE NoTrade)
    /\ UNCHANGED <<buyCall, boot, tmThreads, alive, sendErrors, cfg, lanes, saved, active, lstate, lock, lpending, respQ,
                   processed, applied, timedOut, repeated, held, conn, written,
                   cmdQ, calls, nextReq, returned>>

\* the Ledger update and the notification of a result the monitor has settled on
TMDeliver(t, result, db, ls) ==
    LET n == _notify_martingale_system(
                 [lanes |-> ls, pending |-> pending, active |-> active],
                 [lstate |-> lstate, saved |-> saved, lock |-> lock, lpending |-> lpending,
                  tradesDb |-> update_trade_result(db, t, result)],
                 t, result, orders[t].account)
    IN  /\ lanes' = n.lanes
        /\ pending' = n.pending
        /\ active' = n.active
        /\ lstate' = n.lstate
        /\ saved' = n.saved
        /\ lock' = n.lock
        /\ lpending' = n.lpending
        /\ tradesDb' = n.tradesDb
        /\ active_trades' = active_trades \ {t}
        /\ processed' = IF n.found THEN processed \cup {t} ELSE processed
        /\ applied' = [applied EXCEPT ![t] = @ + n.applications]
        /\ repeated' = (repeated \/ db[t] # "pending")
            /\ scen' = ScenResult(scen, orders[t].account, t, result, db[t] = "loss", n.lanes)
        /\ UNCHANGED <<buyCall, boot, cfg, nextId, orders, respQ, held, conn, written,
                       cmdQ, calls, nextReq, returned, alive, sendErrors>>

\* _check_trade_completion_with_retry before the maximum timeout: one check_win poll,
\* to which the broker answers status
_check_trade_completion_with_retry(t, status) ==
    /\ t \in active_trades
    /\ status \in BrokerAnswers(tradesDb, t)
    /\ LET w == process_trade_result(tradesDb, lanes, t, status)
           seen == DictGet(check_win_reply(t, status).data, "status")
       IN  IF seen \in {"win", "loose", "lose"}
           THEN /\ TMDeliver(t, IF seen = "win" THEN "win" ELSE "loss", w.tradesDb, w.lanes)
                /\ UNCHANGED timedOut
           ELSE /\ tradesDb' = w.tradesDb
                /\ lanes' = w.lanes
                /\ repeated' = (repeated \/ tradesDb[t] # "pending")
                /\ UNCHANGED <<buyCall, boot, cfg, saved, pending, active, nextId, orders,
                               active_trades, lstate, lock, lpending, respQ, processed,
                               applied, timedOut, scen, held, conn, written,
                               cmdQ, calls, nextReq, returned, alive, sendErrors>>

\* _check_trade_completion_with_retry after expiry + 180 s: assume loss
_check_trade_completion_timeout(t) ==
    /\ t \in active_trades
    /\ TMDeliver(t, "loss", tradesDb, lanes)
    /\ timedOut' = timedOut \cup {t}

\* one pass of the monitor loop over one trade
tm_check(t, status) ==
    /\ _check_trade_completion_with_retry(t, status)
    /\ UNCHANGED tmThreads

tm_timeout(t) ==
    /\ _check_trade_completion_timeout(t)
    /\ UNCHANGED tmThreads

\* ---------------------------------- TradeManager: the two threads in steps
\* the workers in the order place_trade_via_worker_manager visits them
WorkerOrder == <<"pelly_demo", "tonami_demo">>

\* _execute_trade_immediately, first loop: the stake decision of every target account;
\* an account whose decision is blocked is left out
trade_futures(accounts, s) ==
    LET Allowed(a) == get_trade_amount_for_signal(a, s).amount > 0
        Future(a) == [account_name |-> a, symbol |-> s,
                      trade_amount |-> get_trade_amount_for_signal(a, s).amount,
                      lane_id |-> get_trade_amount_for_signal(a, s).lane_id]
        chosen == SelectSeq(accounts, Allowed)
    IN  [i \in 1..Len(chosen) |-> Future(chosen[i])]

\* the scheduler thread after it is done with the first of todo
SchedNext(todo, trade) ==
    [stage |-> IF Len(todo) > 1 THEN "send" ELSE "idle",
     todo |-> Tail(todo), trade |-> NoTrade]

\* _trade_scheduler_loop takes a trade request for all enabled workers; a stake decision
\* that raises ends the request
sched_begin(s) ==
    /\ tmThreads.sched.stage = "idle"
    /\ nextId <= MaxManaged
    /\ LET raised == \E i \in 1..Len(WorkerOrder) :
                         get_trade_amount_for_signal(WorkerOrder[i], s).raised
           todo == IF raised THEN << >> ELSE trade_futures(WorkerOrder, s)
       IN  /\ todo # << >>
           /\ tmThreads' = [tmThreads EXCEPT !.sched = [stage |-> "send", todo |-> todo,
                                                        trade |-> NoTrade]]
    /\ UNCHANGED <<buyCall, boot, alive, sendErrors, cfg, lanes, tradesDb, saved, pending, active, nextId,
                   orders, active_trades, lstate, lock, lpending, respQ, processed, applied,
                   timedOut, repeated, scen, held, conn, written, cmdQ, calls, nextReq,
                   returned>>

\* second loop: send_command(account_name, 'buy', ...) of the next account; the thread
\* waits in send_command for the reply
sched_send(a) ==
    /\ tmThreads.sched.stage = "send"
    /\ Head(tmThreads.sched.todo).account_name = a
    /\ tmThreads' = [tmThreads EXCEPT !.sched.stage = "wait"]
    /\ UNCHANGED <<buyCall, boot, alive, sendErrors, cfg, lanes, tradesDb, saved, pending, active, nextId,
                   orders, active_trades, lstate, lock, lpending, respQ, processed, applied,
                   timedOut, repeated, scen, held, conn, written, cmdQ, calls, nextReq,
                   returned>>

\* send_command returns: with buy_ok the broker has placed the order and the trade is
\* put into the engine's pending_trade_results; otherwise the failure is logged
sched_reply(buy_ok) ==
    /\ tmThreads.sched.stage = "wait"
    /\ buy_ok => nextId <= MaxManaged
    /\ LET f == Head(tmThreads.sched.todo)
       IN  IF buy_ok
           THEN /\ pending' = RegisterPending(pending,
                                  PendingRecord(nextId, f.account_name, f.symbol,
                                                f.trade_amount, f.lane_id))
                /\ orders' = [orders EXCEPT ![nextId] = NewOrder(f.account_name, "none")]
                /\ tradesDb' = [tradesDb EXCEPT ![nextId] = "pending"]
                /\ nextId' = nextId + 1
                /\ tmThreads' = [tmThreads EXCEPT !.sched.stage = "register",
                                                  !.sched.trade = nextId]
           ELSE /\ tmThreads' = [tmThreads EXCEPT
                                     !.sched = SchedNext(tmThreads.sched.todo, NoTrade)]
                /\ UNCHANGED <<pending, orders, tradesDb, nextId>>
    /\ UNCHANGED <<buyCall, boot, alive, sendErrors, cfg, lanes, saved, active, active_trades, lstate, lock,
                   lpending, respQ, processed, applied, timedOut, repeated, scen, held,
                   conn, written, cmdQ, calls, nextReq, returned>>

\* with self.lock: self.active_trades[real_trade_id] = trade_info
sched_register ==
    /\ tmThreads.sched.stage = "register"
    /\ tmThreads.mutex = "free"
    /\ active_trades' = active_trades \cup {tmThreads.sched.trade}
    /\ tmThreads' = [tmThreads EXCEPT !.sched = SchedNext(tmThreads.sched.todo, NoTrade)]
    /\ UNCHANGED <<buyCall, boot, alive, sendErrors, cfg, lanes, tradesDb, saved, pending, active, nextId,
                   orders, lstate, lock, lpending, respQ, processed, applied, timedOut,
                   repeated, scen, held, conn, written, cmdQ, calls, nextReq, returned>>

\* _trade_monitor_loop: with self.lock: for trade_id, trade_info in active_trades.items()
mon_begin ==
    /\ tmThreads.mon.stage = "idle"
    /\ tmThreads.mutex = "free"
    /\ active_trades # {}
    /\ tmThreads' = [tmThreads EXCEPT !.mutex = "monitor",
                                      !.mon = [stage |-> "scan", todo |-> active_trades,
                                               trade |-> NoTrade]]
    /\ UNCHANGED <<buyCall, boot, alive, sendErrors, cfg, lanes, tradesDb, saved, pending, active, nextId,
                   orders, active_trades, lstate, lock, lpending, respQ, processed, applied,
                   timedOut, repeated, scen, held, conn, written, cmdQ, calls, nextReq,
                   returned>>

\* the loop reaches trade t, in the order of insertion, and sends its check_win; the
\* thread waits in send_command for the reply, inside the with block
mon_send(t) ==
    /\ tmThreads.mon.stage = "scan"
    /\ tmThreads.mon.todo # {}
    /\ t = Min(tmThreads.mon.todo)
    /\ tmThreads' = [tmThreads EXCEPT !.mon.stage = "wait", !.mon.trade = t]
    /\ UNCHANGED <<buyCall, boot, alive, sendErrors, cfg, lanes, tradesDb, saved, pending, active, nextId,
                   orders, active_trades, lstate, lock, lpending, respQ, processed, applied,
                   timedOut, repeated, scen, held, conn, written, cmdQ, calls, nextReq,
                   returned>>

\* send_command returns the worker's reply to the check_win
mon_reply(status) ==
    /\ tmThreads.mon.stage = "wait"
    /\ _check_trade_completion_with_retry(tmThreads.mon.trade, status)
    /\ tmThreads' = [tmThreads EXCEPT !.mon = [stage |-> "scan",
                                               todo |-> tmThreads.mon.todo \ {tmThreads.mon.trade},
                                               trade |-> NoTrade]]

\* the loop reaches trade t after expiry + 180 s
mon_timeout(t) ==
    /\ tmThreads.mon.stage = "scan"
    /\ tmThreads.mon.todo # {}
    /\ t = Min(tmThreads.mon.todo)
    /\ _check_trade_completion_timeout(t)
    /\ tmThreads' = [tmThreads EXCEPT !.mon.todo = @ \ {t}]

\* the end of the with block
mon_end ==
    /\ tmThreads.mon.stage = "scan"
    /\ tmThreads.mon.todo = {}
    /\ tmThreads' = [tmThreads EXCEPT !.mutex = "free", !.mon.stage = "idle"]
    /\ UNCHANGED <<buyCall, boot, alive, sendErrors, cfg, lanes, tradesDb, saved, pending, active, nextId,
                   orders, active_trades, lstate, lock, lpending, respQ, processed, applied,
                   timedOut, repeated, scen, held, conn, written, cmdQ, calls, nextReq,
                   returned>>

\* ------------------------------------ legacy signal path (detectsignal, bot)
\* trade_tracking_id: the handler's own id of a signal, no broker id
TrackingId == 0 - 1

\* _save_pending_trade_with_real_id on the first buy that succeeds: the tracking id
\* becomes the broker's id in the pending map and in the lock
\* T = [lock, lpending]
_save_pending_trade_with_real_id(T, tracking_id, trade_id) ==
    IF tracking_id \notin T.lpending THEN T
    ELSE [lock |-> IF T.lock = tracking_id THEN trade_id ELSE T.lock,
          lpending |-> (T.lpending \ {tracking_id}) \cup {trade_id}]

\* the trade thread that forgets to clean up after a failed submission
KeepsFailedTrade(T, tracking_id, okSeq, first_id) ==
    IF okSeq # << >> THEN _save_pending_trade_with_real_id(T, tracking_id, first_id) ELSE T

\* The trade thread: the order is bought on every enabled worker in turn (okSeq: those
\* that succeed, first_id: the broker's id of the first); the status is success only if
\* every buy succeeded, otherwise the lock is released if it is still the tracking id
\* and the tracking entry is deleted.
execute_trade_with_error_handling(T, tracking_id, okSeq, first_id) ==
    LET T1 == IF okSeq # << >>
              THEN _save_pending_trade_with_real_id(T, tracking_id, first_id) ELSE T
        failed == Len(okSeq) < Len(WorkerOrder)
    IN  IF ~failed THEN T1
        ELSE [lock |-> IF _single_trade_policy_enabled /\ T1.lock = tracking_id
                       THEN NoTrade ELSE T1.lock,
              lpending |-> T1.lpending \ {tracking_id}]

\* new_message_handler with the trade thread it starts: the signal is dropped while the
\* lock is held; otherwise the lock and the pending map take the tracking id and the
\* stake of the primary worker is bought on all enabled workers; ok is the set of
\* workers whose buy succeeds.
new_message_handler(s, ok) ==
    /\ ~(_single_trade_policy_enabled /\ lock # NoTrade)
    /\ nextId + Cardinality(ok) - 1 <= MaxTrades
    /\ LET g == _get_trade_amount_for_new_signal(lstate, WorkerOrder[1])
           Bought(w) == w \in ok
           okSeq == SelectSeq(WorkerOrder, Bought)
           ids == { nextId + i - 1 : i \in 1..Len(okSeq) }
           T == execute_trade_with_error_handling(
                    [lock |-> IF _single_trade_policy_enabled THEN TrackingId ELSE lock,
                     lpending |-> lpending \cup {TrackingId}],
                    TrackingId, okSeq, nextId)
       IN  /\ lstate' = g.lstate
           /\ lock' = T.lock
           /\ lpending' = T.lpending
           /\ orders' = [t \in 1..MaxTrades |->
                            IF t \in ids THEN NewOrder(okSeq[t - nextId + 1], "polling")
                            ELSE orders[t]]
           /\ tradesDb' = [t \in 1..MaxTrades |-> IF t \in ids THEN "pending" ELSE tradesDb[t]]
           /\ nextId' = nextId + Len(okSeq)
    /\ UNCHANGED <<buyCall, boot, tmThreads, alive, sendErrors, cfg, lanes, saved, pending, active, active_trades, respQ,
                   processed, applied, timedOut, repeated, scen, held, conn, written,
                   cmdQ, calls, nextReq, returned>>

\* monitor_trade_thread sees win or loose before expiry + 30 s
monitor_trade_result(t, status) ==
    /\ orders[t].monitor = "polling"
    /\ status \in BrokerAnswers(tradesDb, t) \ {"unknown"}
    /\ LET w == process_trade_result(tradesDb, lanes, t, status)
       IN  /\ tradesDb' = w.tradesDb
           /\ lanes' = w.lanes
    /\ respQ' = [respQ EXCEPT ![orders[t].account] =
                    Append(@, Frame(Suffixed(MonitorRequest(t), "_result"), "trade_completed",
                                    t, status))]
    /\ orders' = [orders EXCEPT ![t].monitor = "done"]
    /\ UNCHANGED <<buyCall, boot, tmThreads, alive, sendErrors, cfg, saved, pending, active, nextId, active_trades, lstate, lock,
                   lpending, processed, applied, timedOut, repeated, scen, held, conn, written,
                   cmdQ, calls, nextReq, returned>>

\* monitor_trade_thread runs out of time
monitor_trade_timeout(t) ==
    /\ orders[t].monitor = "polling"
    /\ respQ' = [respQ EXCEPT ![orders[t].account] =
                    Append(@, Frame(Suffixed(MonitorRequest(t), "_timeout"), "trade_timeout",
                                    t, ""))]
    /\ orders' = [orders EXCEPT ![t].monitor = "done"]
    /\ UNCHANGED <<buyCall, boot, tmThreads, alive, sendErrors, cfg, lanes, tradesDb, saved, pending, active, nextId,
                   active_trades, lstate, lock, lpending, processed, applied, timedOut,
                   repeated, scen, held, conn, written,
                   cmdQ, calls, nextReq, returned>>

\* the mutation: every frame is taken for a trade result
AnyFrameCompletes(status) == TRUE

\* status == 'trade_completed'
IsTradeCompleted(status) == status = "trade_completed"

\* monitor_results takes the next frame of a worker's response queue
_handle_worker_response(a) ==
    /\ respQ[a] # << >>
    /\ LET f == Head(respQ[a])
           result_status == IF f.result = "win" THEN "win" ELSE "loss"
           l == _handle_trade_result(
                    [lstate |-> lstate, saved |-> saved, lock |-> lock,
                     lpending |-> lpending, tradesDb |-> tradesDb],
                    f.trade_id, result_status, a)
       IN  /\ respQ' = [respQ EXCEPT ![a] = Tail(@)]
           /\ IF IsTradeCompleted(f.status)
              THEN /\ lstate' = l.lstate
                   /\ saved' = l.saved
                   /\ lock' = l.lock
                   /\ lpending' = l.lpending
                   /\ tradesDb' = l.tradesDb
                   /\ applied' = IF l.applied THEN [applied EXCEPT ![f.trade_id] = @ + 1]
                                 ELSE applied
                   /\ UNCHANGED timedOut
              ELSE IF f.status = "trade_timeout"
              THEN /\ timedOut' = timedOut \cup {f.trade_id}
                   /\ UNCHANGED <<lstate, saved, lock, lpending, tradesDb, applied>>
              ELSE UNCHANGED <<lstate, saved, lock, lpending, tradesDb, applied, timedOut>>
    /\ UNCHANGED <<buyCall, boot, tmThreads, alive, sendErrors, cfg, lanes, pending, active, nextId, orders, active_trades,
                   processed, repeated, scen, held, conn, written,
                   cmdQ, calls, nextReq, returned>>

\* -------------------------------------- the command channel (bot, worker)
\* the results send_command makes itself
NotAliveResult == [status |-> "error", message |-> "Worker not alive."]

TimeoutResult(request_id) ==
    [request_id |-> request_id, status |-> "error",
     message |-> "Timeout waiting for specific response"]

\* the mutation: every worker process is taken to be running
AlwaysAlive(a) == TRUE

\* worker_info['process'].is_alive()
is_alive(a) == alive[a]

\* send_command up to the put on the command queue: a check_win for trade t
send_command_put(a, t) ==
    /\ orders[t].account = a
    /\ IF ~is_alive(a)
       THEN /\ sendErrors' = sendErrors \cup {[account |-> a, response |-> NotAliveResult]}
            /\ UNCHANGED <<cmdQ, calls, nextReq>>
       ELSE /\ nextReq <= MaxRequests
            /\ cmdQ' = [cmdQ EXCEPT ![a] = Append(@, [request_id |-> RequestId(nextReq),
                                                      action |-> "check_win",
                                                      trade_id |-> t])]
            /\ calls' = calls \cup {[account |-> a, request_id |-> RequestId(nextReq)]}
            /\ nextReq' = nextReq + 1
            /\ UNCHANGED sendErrors
    /\ UNCHANGED <<buyCall, boot, tmThreads, alive, cfg, lanes, tradesDb, saved, pending, active, nextId, orders, active_trades,
                   lstate, lock, lpending, respQ, processed, applied, timedOut, repeated, scen,
                   held, conn, written, returned>>

\* send_command up to the put on the command queue: a buy on instrument s
send_command_buy(a, s) ==
    /\ IF ~is_alive(a)
       THEN /\ sendErrors' = sendErrors \cup {[account |-> a, response |-> NotAliveResult]}
            /\ UNCHANGED <<cmdQ, calls, nextReq>>
       ELSE /\ nextReq <= MaxRequests
            /\ cmdQ' = [cmdQ EXCEPT ![a] = Append(@, [request_id |-> RequestId(nextReq),
                                                      action |-> "buy", pair |-> s])]
            /\ calls' = calls \cup {[account |-> a, request_id |-> RequestId(nextReq)]}
            /\ nextReq' = nextReq + 1
            /\ UNCHANGED sendErrors
    /\ UNCHANGED <<buyCall, boot, tmThreads, alive, cfg, lanes, tradesDb, saved, pending, active, nextId, orders,
                   active_trades, lstate, lock, lpending, respQ, processed, applied,
                   timedOut, repeated, scen, held, conn, written, returned>>

\* Maximum age in seconds before a command is considered stale
max_command_age == 60

\* The seconds a command may have spent on the command queue when the worker takes it.
CommandWaits == {0, max_command_age + 1}

\* command_age = time.time() - command.get('timestamp', time.time())
command_age(command, now) ==
    now - (IF "timestamp" \in DOMAIN command THEN command.timestamp ELSE now)

\* the worker's main loop takes a buy command at time now, counted in seconds from the
\* creation of the command; buy_ok: api.buy places the order
po_worker_main_buy(a, now, buy_ok) ==
    /\ alive[a]
    /\ cmdQ[a] # << >>
    /\ Head(cmdQ[a]).action = "buy"
    /\ buy_ok => nextId <= MaxChannelTrades
    /\ LET c == Head(cmdQ[a])
           stale == command_age(c, now) > max_command_age
           placed == ~stale /\ buy_ok
       IN  /\ orders' = IF placed THEN [orders EXCEPT ![nextId] = NewOrder(a, "none")]
                         ELSE orders
           /\ tradesDb' = IF placed THEN [tradesDb EXCEPT ![nextId] = "pending"]
                           ELSE tradesDb
           /\ nextId' = IF placed THEN nextId + 1 ELSE nextId
           /\ respQ' = [respQ EXCEPT ![a] =
                  Append(@, IF stale
                            THEN [request_id |-> c.request_id, status |-> "error",
                                  message |-> "Command too old"]
                            ELSE IF buy_ok
                            THEN Frame(c.request_id, "success", nextId, "")
                            ELSE [request_id |-> c.request_id, status |-> "error",
                                  message |-> "Buy command failed"])]
    /\ cmdQ' = [cmdQ EXCEPT ![a] = Tail(@)]
    /\ UNCHANGED <<buyCall, boot, tmThreads, alive, sendErrors, cfg, lanes, saved, pending, active, active_trades,
                   lstate, lock, lpending, processed, applied, timedOut, repeated, scen,
                   held, conn, written, calls, nextReq, returned>>

\* the worker's main loop takes a check_win command; the broker answers status
po_worker_main(a, status) ==
    /\ alive[a]
    /\ cmdQ[a] # << >>
    /\ Head(cmdQ[a]).action = "check_win"
    /\ LET c == Head(cmdQ[a])
           w == process_trade_result(tradesDb, lanes, c.trade_id, status)
           reply == check_win_reply(c.trade_id, status)
       IN  /\ status \in BrokerAnswers(tradesDb, c.trade_id)
           /\ tradesDb' = w.tradesDb
           /\ lanes' = w.lanes
           /\ respQ' = [respQ EXCEPT ![a] =
                           Append(@, Frame(c.request_id, reply.status, c.trade_id,
                                           reply.data.result))]
    /\ cmdQ' = [cmdQ EXCEPT ![a] = Tail(@)]
    /\ UNCHANGED <<buyCall, boot, tmThreads, alive, sendErrors, cfg, saved, pending, active, nextId, orders, active_trades, lstate, lock,
                   lpending, processed, applied, timedOut, repeated, scen, held, conn, written,
                   calls, nextReq, returned>>

\* the worker's main loop takes a check_win command and api.check_win raises: the
\* reply reports the error
po_worker_main_error(a) ==
    /\ alive[a]
    /\ cmdQ[a] # << >>
    /\ Head(cmdQ[a]).action = "check_win"
    /\ respQ' = [respQ EXCEPT ![a] =
                    Append(@, [request_id |-> Head(cmdQ[a]).request_id, status |-> "error",
                               message |-> "Error checking trade result"])]
    /\ cmdQ' = [cmdQ EXCEPT ![a] = Tail(@)]
    /\ UNCHANGED <<buyCall, boot, tmThreads, alive, sendErrors, cfg, lanes, tradesDb, saved, pending, active, nextId,
                   orders, active_trades, lstate, lock, lpending, processed, applied,
                   timedOut, repeated, scen, held, conn, written, calls, nextReq, returned>>

\* the worker process ends (KeyboardInterrupt, or an exception that leaves the main
\* loop); its monitor threads are daemon threads and end with it
po_worker_exit(a) ==
    /\ alive[a]
    /\ alive' = [alive EXCEPT ![a] = FALSE]
    /\ orders' = [t \in 1..MaxTrades |->
                     IF orders[t].account = a /\ orders[t].monitor = "polling"
                     THEN [orders[t] EXCEPT !.monitor = "none"] ELSE orders[t]]
    /\ UNCHANGED <<buyCall, boot, tmThreads, sendErrors, cfg, lanes, tradesDb, saved, pending, active, nextId,
                   active_trades, lstate, lock, lpending, respQ, processed, applied,
                   timedOut, repeated, scen, held, conn, written, cmdQ, calls, nextReq,
                   returned>>

\* the mutation: the first response read is returned
ReturnsAny(response, request_id) == TRUE

\* response.get('request_id') == request_id
Matches(response, request_id) == response.request_id = request_id

\* send_command reads one response from the queue: it returns the response of its own
\* request and logs and drops any other
send_command_get(c) ==
    /\ c \in calls
    /\ respQ[c.account] # << >>
    /\ LET response == Head(respQ[c.account])
       IN  IF Matches(response, c.request_id)
           THEN /\ returned' = returned \cup {[call |-> c.request_id, response |-> response]}
                /\ calls' = calls \ {c}
           ELSE UNCHANGED <<returned, calls>>
    /\ respQ' = [respQ EXCEPT ![c.account] = Tail(@)]
    /\ UNCHANGED <<buyCall, boot, tmThreads, alive, sendErrors, cfg, lanes, tradesDb, saved, pending, active, nextId, orders, active_trades,
                   lstate, lock, lpending, processed, applied, timedOut, repeated, scen, held,
                   conn, written, cmdQ, nextReq>>

\* send_command gives up after timeout seconds and returns its own error message
send_command_timeout(c) ==
    /\ c \in calls
    /\ calls' = calls \ {c}
    /\ sendErrors' = sendErrors \cup {[account |-> c.account,
                                        response |-> TimeoutResult(c.request_id)]}
    /\ UNCHANGED <<buyCall, boot, tmThreads, alive, cfg, lanes, tradesDb, saved, pending, active, nextId, orders, active_trades,
                   lstate, lock, lpending, respQ, processed, applied, timedOut, repeated, scen,
                   held, conn, written, cmdQ, nextReq, returned>>

\* ------------------------------------- the Ledger under several processes
\* Every statement is committed on its own (_execute_query commits, MySQL runs with
\* autocommit), so the statements of different connections interleave.

\* SELECT trade_ids, total_invested, current_level, ... WHERE lane_id = ?
lane_row_select(ls, lane_id) == <<ls[lane_id]>>

\* UPDATE martingale_lanes SET trade_ids, total_invested, current_level, current_amount
\* WHERE lane_id = ?, with the values computed from the row selected before
lane_row_update(ls, lane_id, row, trade_id, trade_amount) ==
    [ls EXCEPT ![lane_id] =
        [@ EXCEPT !.trade_ids = Append(row.trade_ids, trade_id),
                  !.total_invested = StoredAmount(row.total_invested + trade_amount),
                  !.current_level = row.current_level + 1,
                  !.current_amount =
                      StoredAmount(PowAmount(row.base_amount, row.mult_num, row.mult_den,
                                             row.current_level))]]

\* Result application in process p: the loss of a base trade; _create_new_lane_for_loss
\* inserts the lane and goes on to update_martingale_lane_on_trade with the lost trade
LedgerLoss(p, a, s) ==
    /\ conn[p].stage = "idle"
    /\ nextId <= MaxTrades
    /\ cfg.martingale_enabled /\ cfg.auto_create_lanes
    /\ get_lane_statistics(lanes, a) < cfg.max_daily_lanes
    /\ lanes' = create_martingale_lane(lanes, a, s, AccountRow(a), DefaultMaxLevel)
    /\ conn' = [conn EXCEPT ![p] = [stage |-> "called", lane_id |-> Len(lanes) + 1,
                                    trade_id |-> nextId,
                                    amount |-> _get_account_base_amount(a), row |-> << >>]]
    /\ nextId' = nextId + 1
    /\ UNCHANGED <<buyCall, boot, tmThreads, alive, sendErrors, cfg, tradesDb, saved, pending, active, orders, active_trades, lstate, lock,
                   lpending, respQ, processed, applied, timedOut, repeated, scen, held,
                   written,
                   cmdQ, calls, nextReq, returned>>

\* Trade registration in process p: the stake decision selected a lane, the order was
\* accepted, and handle_trade_placed goes on to update_martingale_lane_on_trade
LedgerRegister(p, a, s) ==
    /\ conn[p].stage = "idle"
    /\ nextId <= MaxTrades
    /\ cfg.global_martingale_enabled /\ ~cfg.concurrent_trading_enabled
    /\ LET lane == get_next_lane_for_assignment(lanes, cfg.lane_assignment_strategy, a, s)
       IN  /\ lane # NoLane
           /\ conn' = [conn EXCEPT ![p] = [stage |-> "called", lane_id |-> lane,
                                           trade_id |-> nextId,
                                           amount |-> LaneStake(lanes[lane]), row |-> << >>]]
    /\ nextId' = nextId + 1
    /\ UNCHANGED <<buyCall, boot, tmThreads, alive, sendErrors, cfg, lanes, tradesDb, saved, pending, active, orders, active_trades, lstate,
                   lock, lpending, respQ, processed, applied, timedOut, repeated, scen, held,
                   written,
                   cmdQ, calls, nextReq, returned>>

\* update_martingale_lane_on_trade, first statement
LedgerSelect(p) ==
    /\ conn[p].stage = "called"
    /\ conn' = [conn EXCEPT ![p].stage = "selected",
                            ![p].row = lane_row_select(lanes, conn[p].lane_id)]
    /\ UNCHANGED <<buyCall, boot, tmThreads, alive, sendErrors, cfg, lanes, tradesDb, saved, pending, active, nextId, orders, active_trades,
                   lstate, lock, lpending, respQ, processed, applied, timedOut, repeated, scen,
                   held, written,
                   cmdQ, calls, nextReq, returned>>

\* update_martingale_lane_on_trade, second statement; the call returns True
LedgerUpdate(p) ==
    /\ conn[p].stage = "selected"
    /\ lanes' = lane_row_update(lanes, conn[p].lane_id, conn[p].row[1], conn[p].trade_id,
                                conn[p].amount)
    /\ written' = written \cup {[lane_id |-> conn[p].lane_id, trade_id |-> conn[p].trade_id]}
    /\ conn' = [conn EXCEPT ![p] = Idle]
    /\ UNCHANGED <<buyCall, boot, tmThreads, alive, sendErrors, cfg, tradesDb, saved, pending, active, nextId, orders, active_trades,
                   lstate, lock, lpending, respQ, processed, applied, timedOut, repeated, scen,
                   held,
                   cmdQ, calls, nextReq, returned>>

\* Result application in process p: the win of a trade registered on a lane
LedgerWin(p, lane_id) ==
    /\ conn[p].stage = "idle"
    /\ lane_id \in 1..Len(lanes)
    /\ \E w \in written : w.lane_id = lane_id
    /\ lanes[lane_id].status = "active"
    /\ lanes' = complete_martingale_lane(lanes, lane_id)
    /\ UNCHANGED <<buyCall, boot, tmThreads, alive, sendErrors, cfg, tradesDb, saved, pending, active, nextId, orders, active_trades,
                   lstate, lock, lpending, respQ, processed, applied, timedOut, repeated, scen,
                   held, conn, written,
                   cmdQ, calls, nextReq, returned>>

\* ---------------------------------------------------------------- restart
\* The processes are started again: the engine, the TradeManager and the workers are
\* constructed anew, the legacy state is loaded from the Ledger; the Ledger is kept.
Restart ==
    /\ pending' = {}
    /\ active' = [a \in Accounts |-> FALSE]
    /\ active_trades' = {}
    /\ lstate' = saved
    /\ lock' = NoTrade
    /\ lpending' = {}
    /\ respQ' = [a \in Accounts |-> << >>]
    /\ orders' = [t \in 1..MaxTrades |-> [orders[t] EXCEPT !.monitor = "none"]]
    /\ scen' = IF scen.stage \in {"bad", "d4"} THEN scen ELSE ScenOff
    /\ held' = NoDecision
    /\ conn' = [p \in Processes |-> Idle]
    /\ cmdQ' = [a \in Accounts |-> << >>]
    /\ calls' = {}
    /\ alive' = [a \in Accounts |-> TRUE]
    /\ tmThreads' = ThreadsIdle
    /\ buyCall' = [buyCall EXCEPT !.request = NoRequest, !.attempt = 0, !.abandoned = {}]
    /\ UNCHANGED <<boot, sendErrors, cfg, lanes, tradesDb, saved, nextId, processed, applied, timedOut,
                   repeated, written, nextReq, returned>>

\* ----------------------------------------------------------- specifications
\* The engine driven by the TradeManager.
Next ==
    \/ \E sig \in Signals, buy_ok \in BOOLEAN : tm_execute(sig[1], sig[2], buy_ok)
    \/ \E t \in 1..MaxTrades, status \in {"unknown", "win", "loose"} : tm_check(t, status)
    \/ \E t \in 1..MaxTrades : tm_timeout(t)
    \/ Restart

Spec == Init /\ [][Next]_vars

\* The engine driven by a caller of its public methods.
NextEngine ==
    \/ \E sig \in ClientSignals : ClientTrade(sig[1], sig[2])
    \/ \E a \in Accounts, s1 \in Symbols, s2 \in Symbols : ClientRace(a, s1, s2)
    \/ \E t \in 1..MaxTrades, result \in Results : ClientResult(t, result)
    \/ Restart

SpecEngine == Init /\ [][NextEngine]_vars

\* The engine driven by callers whose orders take time at the broker.
NextCallers ==
    \/ \E sig \in ClientSignals : ClientTrade(sig[1], sig[2])
    \/ \E sig \in ClientSignals : ClientDecide(sig[1], sig[2])
    \/ ClientPlaced
    \/ \E t \in 1..MaxTrades, result \in Results : ClientResult(t, result)
    \/ Restart

SpecCallers == Init /\ [][NextCallers]_vars

\* The engine while the Ledger is out of reach for some of its queries.
NextOutage ==
    \/ \E sig \in ClientSignals : ClientTrade(sig[1], sig[2])
    \/ \E sig \in ClientSignals : ClientDecideUnavailable(sig[1], sig[2])
    \/ ClientPlaced
    \/ \E t \in 1..MaxTrades, result \in Results : ClientResult(t, result)
    \/ \E t \in 1..MaxTrades, result \in Results, fails \in SUBSET LedgerWrites :
          ClientResultFailing(t, result, fails)
    \/ Restart

SpecOutage == Init /\ [][NextOutage]_vars

\* The Ledger's lane rows under the engines of two processes.
NextLedger ==
    \/ \E p \in Processes, sig \in ClientSignals : LedgerLoss(p, sig[1], sig[2])
    \/ \E p \in Processes, sig \in ClientSignals : LedgerRegister(p, sig[1], sig[2])
    \/ \E p \in Processes : LedgerSelect(p)
    \/ \E p \in Processes : LedgerUpdate(p)
    \/ \E p \in Processes, lane_id \in 1..MaxTrades : LedgerWin(p, lane_id)
    \/ Restart

SpecLedger == Init /\ [][NextLedger]_vars

\* The response queue of the primary worker read by send_command calls and by
\* monitor_results.
NextChannel ==
    \/ \E s \in Symbols, ok \in SUBSET {WorkerOrder[1]} :
          nextId <= MaxChannelTrades /\ new_message_handler(s, ok)
    \/ \E t \in 1..MaxTrades, status \in {"win", "loose"} : monitor_trade_result(t, status)
    \/ \E t \in 1..MaxTrades : monitor_trade_timeout(t)
    \/ \E a \in Accounts, t \in 1..MaxTrades : send_command_put(a, t)
    \/ \E a \in Accounts, status \in {"unknown", "win", "loose"} : po_worker_main(a, status)
    \/ \E c \in calls : send_command_get(c)
    \/ \E c \in calls : send_command_timeout(c)
    \/ \E a \in Accounts : _handle_worker_response(a)
    \/ Restart

\* The channel does not read the engine's settings: they are the defaults.
InitChannel == Init /\ cfg = DefaultCfg

SpecChannel == InitChannel /\ [][NextChannel]_vars

\* The scheduler thread and the monitor thread of the TradeManager, step by step.
NextThreads ==
    \/ \E s \in {ScenSymbol} : sched_begin(s)
    \/ \E a \in Accounts : sched_send(a)
    \/ \E buy_ok \in BOOLEAN : sched_reply(buy_ok)
    \/ sched_register
    \/ mon_begin
    \/ \E t \in 1..MaxTrades : mon_send(t)
    \/ \E status \in {"unknown", "win", "loose"} : mon_reply(status)
    \/ \E t \in 1..MaxTrades : mon_timeout(t)
    \/ mon_end
    \/ Restart

SpecThreads == Init /\ [][NextThreads]_vars

\* Every worker has its own process and its own pair of queues: the commands are those
\* sent to the primary worker.
ChannelWorkers == {WorkerOrder[1]}

\* The commands of send_command callers and the worker's main loop that executes them.
NextCommands ==
    \/ \E a \in ChannelWorkers : send_command_buy(a, ScenSymbol)
    \/ \E a \in ChannelWorkers, t \in 1..MaxTrades : send_command_put(a, t)
    \/ \E a \in ChannelWorkers, now \in CommandWaits, buy_ok \in BOOLEAN :
          po_worker_main_buy(a, now, buy_ok)
    \/ \E a \in ChannelWorkers, status \in {"unknown", "win", "loose"} :
          po_worker_main(a, status)
    \/ \E a \in ChannelWorkers : po_worker_main_error(a)
    \/ \E a \in ChannelWorkers : po_worker_exit(a)
    \/ \E c \in calls : send_command_get(c)
    \/ \E c \in calls : send_command_timeout(c)
    \/ Restart

SpecCommands == InitChannel /\ [][NextCommands]_vars

\* The legacy queue driven by the signal handler and the workers' monitor threads.
NextLegacy ==
    \/ \E s \in Symbols, ok \in SUBSET Accounts : new_message_handler(s, ok)
    \/ \E t \in 1..MaxTrades, status \in {"win", "loose"} : monitor_trade_result(t, status)
    \/ \E t \in 1..MaxTrades : monitor_trade_timeout(t)
    \/ \E a \in Accounts : _handle_worker_response(a)
    \/ Restart

SpecLegacy == Init /\ [][NextLegacy]_vars

\* A monitor thread polls until it has a result or runs out of time, and the
\* orchestrator's monitor_results loop reads every worker's queue on each pass.
LegacyFairness ==
    /\ \A t \in 1..MaxTrades :
          WF_vars(monitor_trade_timeout(t)
                  \/ \E status \in {"win", "loose"} : monitor_trade_result(t, status))
    /\ \A a \in Accounts : WF_vars(_handle_worker_response(a))

SpecLegacyLive == SpecLegacy /\ LegacyFairness

\* ------------------------------------------------------------- properties
\* the level of a lane row counted from 0 = base stake: the stake exponent
Level(l) == l.current_level - 1

\* base * multiplier^k of an account
BaseTimesMultiplier(a, k) ==
    PowAmount(AccountRow(a).base_amount, AccountRow(a).mult_num, AccountRow(a).mult_den, k)

\* the lane a pending trade was placed on
LaneOf(t) == IF IsPending(pending, t) THEN PendingInfo(pending, t).lane_id ELSE NoLane

\* the trades of an account the TradeManager is monitoring
Monitored(a) == { t \in active_trades : orders[t].account = a }

\* C1: the result of a trade changes staking state (a lane created or completed, the
\* legacy counter and queue updated) at most once over the whole result path, however
\* often the result is polled, and never in both the lane engine and the legacy queue.
C1_AtMostOnce == \A t \in 1..MaxTrades : applied[t] <= 1

\* C1 witness: the only trade placed was seen lost by a poll (the worker processed the
\* result), was then delivered again by the TradeManager, and was applied once.
C1_Witness ==
    /\ nextId = 2 /\ repeated /\ 1 \in processed /\ applied[1] = 1 /\ lanes # << >>

\* C2: after handle_trade_result has processed trade id T, a later call for T with any
\* result leaves the lanes, the pending-trade map and the active flags unchanged.
C2_Idempotent ==
    [][\A t \in processed, r \in Results :
          ClientResult(t, r) => /\ lanes' = lanes
                                /\ pending' = pending
                                /\ active' = active]_vars

\* C2 witness: a trade id has been processed as a loss that made a lane, and another
\* trade of that account is pending: a state in which a further call would show.
C2_Witness ==
    \E t \in processed, p \in pending :
        \E i \in 1..Len(lanes) :
            /\ lanes[i].trade_ids[1] = t /\ lanes[i].status = "active"
            /\ lanes[i].account = p.account

\* C3: the level of a lane goes up by exactly one when a trade placed on it loses, the
\* next stake then being base * multiplier^(level + 1); nothing else changes the level,
\* and a lane at max_level does not escalate.
C3_Escalation ==
    [][\A i \in 1..Len(lanes) :
          LET lossOn == \E t \in 1..MaxTrades : LaneOf(t) = i /\ ClientResult(t, "loss")
              n == Level(lanes[i])
          IN  /\ (lossOn /\ n < lanes[i].max_level) =>
                    /\ Level(lanes'[i]) = n + 1
                    /\ LaneStake(lanes'[i]) = BaseTimesMultiplier(lanes[i].account, n + 1)
              /\ (~lossOn \/ n >= lanes[i].max_level) => Level(lanes'[i]) = n]_vars

\* C4: base 1.00, multiplier 2.5, one account and one instrument through the
\* TradeManager: the decisions are 1.00 without lane, after the loss 2.50 on the new
\* lane, after the second loss 6.25 on the same lane, after the win 1.00 without lane,
\* the lane then being completed.
C4_Scenario == scen.stage # "bad"

\* C5: a win of a trade placed on lane L sets the status of L to completed and changes
\* no other field of L and no other lane of any account.
C5_WinCompletesOnlyItsLane ==
    [][\A t \in 1..MaxTrades :
          (LaneOf(t) # NoLane /\ ClientResult(t, "win")) =>
              lanes' = [lanes EXCEPT ![LaneOf(t)].status = "completed"]]_vars

\* C5 witness: a lane completed by the win of its last trade, next to a lane of the same
\* account that is still active.
C5_Witness ==
    \E i, j \in 1..Len(lanes) :
        /\ i # j
        /\ lanes[i].account = lanes[j].account
        /\ lanes[i].status = "completed"
        /\ lanes[j].status = "active"
        /\ Len(lanes[i].trade_ids) >= 2
        /\ lanes[i].trade_ids[Len(lanes[i].trade_ids)] \in processed

\* C6: with the single-trade policy enabled, while the TradeManager monitors a trade of
\* an account, every stake decision for that account is blocked (amount <= 0, no lane)
\* and a signal for that account places no order.
C6_PolicyBlocks ==
    /\ [](cfg.single_trade_policy_enabled =>
            \A sig \in Signals :
                Monitored(sig[1]) # {} =>
                    LET d == get_trade_amount_for_signal(sig[1], sig[2])
                    IN  ~d.raised /\ d.amount <= 0 /\ d.lane_id = NoLane)
    /\ [][\A sig \in Signals, buy_ok \in BOOLEAN :
            (/\ cfg.single_trade_policy_enabled
             /\ Monitored(sig[1]) # {}
             /\ tm_execute(sig[1], sig[2], buy_ok)) => orders' = orders]_vars

\* C7: a trade whose monitoring was started is eventually off the tracked set with its
\* outcome applied to the staking state (a timeout counting as a loss), unless the
\* process is restarted first.
C7_EventuallyResolved ==
    \A t \in 1..MaxTrades :
        (orders[t].monitor = "polling") ~>
            (orders[t].monitor = "none" \/ (applied[t] >= 1 /\ t \notin lpending))

C9_ConcurrentPlaced ==
    (cfg.concurrent_trading_enabled /\ cfg.max_concurrent_lanes = 3) =>
        /\ \A sig \in Signals :
              (/\ Cardinality(Monitored(sig[1])) < 3
               /\ processed = {}
               /\ \A p \in pending : p.account = sig[1] => p.symbol # sig[2]) =>
                  LET d == get_trade_amount_for_signal(sig[1], sig[2])
                  IN  ~d.raised /\ d.amount > 0
        /\ \A t \in timedOut :
              \E i \in 1..Len(lanes) :
                  lanes[i].account = orders[t].account /\ t \in
                      { lanes[i].trade_ids[k] : k \in 1..Len(lanes[i].trade_ids) }

\* C10: the number of active lanes of an account never exceeds max_concurrent_lanes.
C10_LaneCap ==
    \A a \in Accounts :
        Cardinality(get_active_martingale_lanes(lanes, a, "")) <= cfg.max_concurrent_lanes

\* the statuses complete_martingale_lane writes
Terminal == {"completed", "cancelled"}

\* C11: a lane whose status is completed or cancelled is never returned by a stake
\* decision, and no step changes its status, its level or its trade list.
C11_TerminalLanes ==
    /\ [](\A sig \in ClientSignals :
            LET d == get_trade_amount_for_signal(sig[1], sig[2])
            IN  (~d.raised /\ d.lane_id # NoLane) => lanes[d.lane_id].status \notin Terminal)
    /\ [][\A i \in 1..Len(lanes) :
            lanes[i].status \in Terminal =>
                /\ lanes'[i].status = lanes[i].status
                /\ lanes'[i].current_level = lanes[i].current_level
                /\ lanes'[i].trade_ids = lanes[i].trade_ids]_vars

\* C12: a lane has at most one placed trade awaiting its result, and a stake decision
\* never returns a lane that has one.
C12_OneUnresolvedPerLane ==
    /\ \A p, q \in pending : (p.lane_id # NoLane /\ p.lane_id = q.lane_id) => p = q
    /\ \A sig \in Signals :
          LET d == get_trade_amount_for_signal(sig[1], sig[2])
          IN  (~d.raised /\ d.lane_id # NoLane) => \A p \in pending : p.lane_id # d.lane_id

\* the trade ids in a lane row
TradeIds(l) == { l.trade_ids[k] : k \in 1..Len(l.trade_ids) }

\* C13: when a trade registration and a result application of different processes
\* update the same lane, both take effect: every trade id written is in the lane's
\* list, and the lane's level has advanced once per update, not less and not more.
C13_BothTakeEffect ==
    /\ \A w \in written : w.trade_id \in TradeIds(lanes[w.lane_id])
    /\ \A i \in 1..Len(lanes) :
          lanes[i].current_level = 1 + Cardinality({ w \in written : w.lane_id = i })

\* C14: when a poll of a monitored trade brings the broker's win or loss before the
\* maximum timeout, that outcome is in the Ledger, the engine has been given the result
\* of the trade, and the trade is no longer monitored.
C14_TerminalStatusDelivered ==
    [][\A t \in 1..MaxTrades, status \in {"win", "loose"} :
          tm_check(t, status) =>
              /\ tradesDb'[t] = parsed_status(status)
              /\ t \in processed'
              /\ t \notin active_trades']_vars

\* C15: every frame of a response queue reaches its consumer: a send_command call never
\* takes a trade_completed frame away from the result handler, and monitor_results
\* never takes the response that a waiting send_command call is waiting for.
C15_FramesReachConsumer ==
    [][/\ \A c \in calls :
             send_command_get(c) => Head(respQ[c.account]).status # "trade_completed"
       /\ \A a \in Accounts :
             _handle_worker_response(a) =>
                 \A c \in calls : ~(c.account = a /\ Matches(Head(respQ[a]), c.request_id))]_vars

\* C16: a worker response that send_command returned carries the request id generated
\* for that call.
C16_OnlyOwnResponse ==
    \A r \in returned : r.response.request_id = r.call

\* C16 witness: the frame of a finished monitor thread is gone from the queue without
\* having reached the result handler, so a send_command call read and dropped it, and a
\* call has returned the response to its own request.
C16_Witness ==
    /\ returned # {}
    /\ \E t \in 1..MaxTrades :
          /\ orders[t].monitor = "done"
          /\ t \in lpending /\ t \notin timedOut
          /\ respQ[orders[t].account] = << >>


C18_LockEventuallyReleased ==
    (lock # NoTrade) ~> (lock = NoTrade)


\* the trades placed on an account that the broker has not yet resolved
InFlight(a) == { t \in 1..MaxTrades : orders[t].account = a /\ orders[t].monitor = "polling" }

\* C19: with the single-trade policy of the signal handler no account has more than one
\* trade in flight, and while the lock is held no signal places an order.
C19_OneTradeInFlight ==
    /\ [](\A a \in Accounts : Cardinality(InFlight(a)) <= 1)
    /\ [][lock # NoTrade => nextId' = nextId]_vars


\* C20: in the legacy queue mode, for every account, a processed loss adds one to
\* consecutive_losses and appends round(base * multiplier^k, 2) for the new count k, a
\* processed win leaves the counter 0 and the queue empty, a stake decision takes the
\* head of the queue of the primary account and nothing else changes either; so the
\* queue always holds, in loss order, the amounts of the latest losses since the last win.
C20_LegacyQueue ==
    /\ [](\A a \in Accounts :
            LET n == lstate[a].consecutive_losses
                q == lstate[a].martingale_queue
            IN  /\ Len(q) <= n
                /\ \A i \in 1..Len(q) :
                      q[i] = Round2(PowAmount(AccountRow(a).base_amount,
                                              AccountRow(a).mult_num, AccountRow(a).mult_den,
                                              n - Len(q) + i)))
    /\ [][LET Reset == [consecutive_losses |-> 0, martingale_queue |-> << >>]
              AfterLoss(a) ==
                  [consecutive_losses |-> lstate[a].consecutive_losses + 1,
                   martingale_queue |->
                       Append(lstate[a].martingale_queue,
                              Round2(PowAmount(AccountRow(a).base_amount,
                                               AccountRow(a).mult_num, AccountRow(a).mult_den,
                                               lstate[a].consecutive_losses + 1)))]
              AfterDecision(a) ==
                  IF a = WorkerOrder[1] /\ cfg.martingale_enabled
                       /\ lstate[a].martingale_queue # << >>
                  THEN [lstate[a] EXCEPT !.martingale_queue = Tail(@)]
                  ELSE lstate[a]
          IN  /\ \A a \in Accounts :
                    _handle_worker_response(a)
                        => /\ lstate'[a] =
                                 IF Head(respQ[a]).status # "trade_completed" THEN lstate[a]
                                 ELSE IF Head(respQ[a]).result = "win" THEN Reset
                                 ELSE AfterLoss(a)
                           /\ \A b \in Accounts \ {a} : lstate'[b] = lstate[b]
              /\ (\E s \in Symbols, ok \in SUBSET Accounts : new_message_handler(s, ok))
                    => \A a \in Accounts : lstate'[a] = AfterDecision(a)
              /\ (\E t \in 1..MaxTrades :
                        \/ monitor_trade_timeout(t)
                        \/ \E status \in {"win", "loose"} : monitor_trade_result(t, status))
                    => lstate' = lstate]_vars

\* two losses in a row on the primary account, the stake queued by the first one taken
\* by the second signal
C20_Witness ==
    /\ lstate[WorkerOrder[1]].consecutive_losses = 2
    /\ lstate[WorkerOrder[1]].martingale_queue
           = <<Round2(PowAmount(Dollar, 5, 2, 2))>>
    /\ \E t \in 1..MaxTrades : applied[t] >= 1 /\ tradesDb[t] = "loss"

C22_LossOnLane ==
    [][\A t \in 1..MaxTrades :
          (/\ IsPending(pending, t)
           /\ LaneOf(t) # NoLane
           /\ cfg.martingale_enabled
           /\ tm_timeout(t))
              => LET i == LaneOf(t)
                     l == lanes[i]
                 IN  IF Level(l) + 1 >= l.max_level
                     THEN lanes'[i].status = "completed"
                     ELSE /\ lanes'[i].status = "active"
                          /\ LaneStake(lanes'[i])
                                = (PendingInfo(pending, t).amount * l.mult_num) \div l.mult_den]_vars

\* C23: when a base trade (no lane) of an account with Martingale enabled is lost while
\* auto_create_lanes is off or max_daily_lanes is reached, the next escalated amount is
\* appended to the account's legacy queue and the next stake decision for the account
\* is above the base amount.
C23_LossWithoutLaneQueues ==
    [][\A t \in 1..MaxTrades :
          (/\ IsPending(pending, t)
           /\ LaneOf(t) = NoLane
           /\ cfg.global_martingale_enabled
           /\ cfg.martingale_enabled
           /\ \/ ~cfg.auto_create_lanes
              \/ get_lane_statistics(lanes, PendingInfo(pending, t).account)
                    >= cfg.max_daily_lanes
           /\ tm_timeout(t))
              => LET a == PendingInfo(pending, t).account
                     s == PendingInfo(pending, t).symbol
                     k == lstate[a].consecutive_losses + 1
                 IN  /\ lstate'[a].martingale_queue
                           = Append(lstate[a].martingale_queue,
                                    Round2(PowAmount(AccountRow(a).base_amount,
                                                     AccountRow(a).mult_num,
                                                     AccountRow(a).mult_den, k)))
                     /\ (get_trade_amount_for_signal(a, s).amount)'
                           > AccountRow(a).base_amount]_vars

\* C24: in every state every lane row has current_amount = base_amount * multiplier^level,
\* level 0 being the base stake.
C24_CurrentAmount ==
    \A i \in 1..Len(lanes) :
        lanes[i].current_amount
            = PowAmount(lanes[i].base_amount, lanes[i].mult_num, lanes[i].mult_den,
                        Level(lanes[i]))

\* C25: a stake decision taken while the Ledger cannot be read never gives the caller an
\* amount above 0.
C25_FailsClosed ==
    [][\A sig \in ClientSignals : ~ClientDecideUnavailable(sig[1], sig[2])]_vars

\* C26: when a Ledger write fails while a result is applied, a call that returns True
\* without raising leaves the Ledger as the call without the failure leaves it.
C26_WriteFailureReported ==
    [][\A t \in 1..MaxTrades, result \in Results, fails \in SUBSET LedgerWrites :
          ClientResultFailing(t, result, fails)
              => LET r == handle_trade_result_failing(lanes, pending, active, t, result, fails)
                     n == handle_trade_result(lanes, pending, active, t, result)
                 IN  (r.ret /\ ~r.raised) => r.lanes = n.lanes]_vars

\* C27: the loss counter and the queue of every account stored in the Ledger equal the
\* values in memory, also after a stake decision that takes a queued amount.
C27_LedgerEqualsMemory ==
    \A a \in Accounts : saved[a] = lstate[a]

\* C28: the result of send_command tells a timeout from an error that the worker
\* reported: a result made for a call that ran out of time never has the status value
\* of a returned worker response that reports an error.
C28_TimeoutIsNotError ==
    \A e \in sendErrors, r \in returned :
        (/\ DictGet(e.response, "message") = "Timeout waiting for specific response"
         /\ DictGet(r.response, "message") = "Error checking trade result")
            => e.response.status # r.response.status

\* C29: when the worker process of the target account is not alive, send_command
\* returns its error result in the same step: no command is put on the command queue,
\* no request id is generated and no call is left waiting for the timeout.
C29_DeadWorkerRefused ==
    [][\A a \in Accounts, t \in 1..MaxTrades :
          (send_command_put(a, t) /\ ~alive[a])
              => /\ cmdQ' = cmdQ
                 /\ calls' = calls
                 /\ nextReq' = nextReq
                 /\ [account |-> a, response |-> NotAliveResult] \in sendErrors']_vars

\* C29 witness: send_command has refused a call for a worker that is not alive while it
\* could still have generated a request id, and the worker's command queue is empty.
C29_Witness ==
    \E e \in sendErrors :
        /\ DictGet(e.response, "message") = NotAliveResult.message
        /\ ~alive[e.account]
        /\ cmdQ[e.account] = << >>
        /\ nextReq <= MaxRequests
        /\ \E t \in 1..MaxTrades : orders[t].account = e.account

\* C30: a buy command that has been on the command queue for longer than
\* max_command_age seconds when the worker takes it up is discarded: no order is placed
\* for it.
C30_StaleBuyDiscarded ==
    [][\A a \in Accounts, now \in CommandWaits, buy_ok \in BOOLEAN :
          (po_worker_main_buy(a, now, buy_ok) /\ now > max_command_age)
              => /\ nextId' = nextId
                 /\ orders' = orders
                 /\ tradesDb' = tradesDb]_vars

\* C31: a trade's Ledger result is written once: when the trades row holds win or loss,
\* no step of any result path changes it.
C31_ResultWrittenOnce ==
    [][\A t \in 1..MaxTrades :
          tradesDb[t] \in {"win", "loss"} => tradesDb'[t] = tradesDb[t]]_vars

\* C32: when the placement of a signal's order fails on every worker, no staking state
\* changes: the lanes, the legacy queue and the loss counter, in memory and in the
\* Ledger, are what they were before the stake decision made for the signal.
C32_FailedPlacementKeepsStaking ==
    [][\A s \in Symbols :
          new_message_handler(s, {})
              => /\ lanes' = lanes
                 /\ lstate' = lstate
                 /\ saved' = saved]_vars

\* C33: a trade resolved by the monitor timeout is told apart in the Ledger from a loss
\* the broker confirmed: its trades row differs from the row of a trade whose loss was
\* written on the broker's answer.
C33_TimedOutMarked ==
    \A t, u \in 1..MaxTrades :
        (t \in timedOut /\ u \notin timedOut /\ tradesDb[u] = "loss")
            => tradesDb[t] # tradesDb[u]

\* C34: when the orchestrator takes a worker's trade_timeout frame, the result handler
\* is not invoked: the loss counter and the queue, in memory and in the Ledger, the
\* pending map, the lock and the trades row are unchanged.
C34_TimeoutFrameOnlyLogged ==
    [][\A a \in Accounts :
          (_handle_worker_response(a) /\ Head(respQ[a]).status = "trade_timeout")
              => /\ lstate' = lstate
                 /\ saved' = saved
                 /\ lpending' = lpending
                 /\ lock' = lock
                 /\ tradesDb' = tradesDb
                 /\ applied' = applied]_vars

\* C34 witness: the trade_timeout frame of a trade has been taken from the queue and
\* the trade is still in the pending map.
C34_Witness ==
    \E t \in timedOut :
        /\ t \in lpending
        /\ orders[t].monitor = "done"
        /\ respQ[orders[t].account] = << >>

\* C35: while staking is disabled globally or for the account, every stake decision is
\* the account's base amount with no lane, whatever lanes, queued amounts and loss
\* count exist, and the decision of the legacy path consumes no queued amount.
C35_DisabledGivesBase ==
    (~cfg.global_martingale_enabled \/ ~cfg.martingale_enabled) =>
        /\ \A sig \in ClientSignals :
              LET d == get_trade_amount_for_signal(sig[1], sig[2])
              IN  /\ ~d.raised
                  /\ d.amount = _get_account_base_amount(sig[1])
                  /\ d.lane_id = NoLane
        /\ \A a \in Accounts :
              LET g == _get_trade_amount_for_new_signal(lstate, a)
              IN  /\ g.amount = AccountRow(a).base_amount
                  /\ g.lstate = lstate

\* C36: a trade result processed while staking is disabled, globally or for the
\* account of the trade, changes no staking state: the lanes, the loss counter and the
\* queue, in memory and in the Ledger, are the same after it as before it.
C36_DisabledResultKeepsState ==
    [][\A t \in 1..MaxTrades :
          ((tm_timeout(t) \/ \E status \in {"unknown", "win", "loose"} : tm_check(t, status))
           /\ (~cfg.global_martingale_enabled \/ ~cfg.martingale_enabled))
              => /\ lanes' = lanes
                 /\ lstate' = lstate
                 /\ saved' = saved]_vars

\* C37: waiting for a worker's reply blocks nothing else: while the scheduler thread
\* waits for the reply to one account's buy, the buy of the next account can be sent;
\* while the monitor thread waits for the reply to one trade's check, a trade that has
\* just been placed can be registered for monitoring and the check of another trade
\* can be sent.
C37_WaitingBlocksNothing ==
    /\ (tmThreads.sched.stage = "wait" /\ Len(tmThreads.sched.todo) > 1)
           => ENABLED sched_send(tmThreads.sched.todo[2].account_name)
    /\ (tmThreads.mon.stage = "wait" /\ tmThreads.sched.stage = "register")
           => ENABLED sched_register
    /\ (tmThreads.mon.stage = "wait" /\ tmThreads.mon.todo \ {tmThreads.mon.trade} # {})
           => \E u \in tmThreads.mon.todo \ {tmThreads.mon.trade} : ENABLED mon_send(u)

\* ------------------------------------------------------------ bot.main: startup
\* main is entered: nothing is opened, nothing is loaded
Starting ==
    [stage |-> "start", db |-> FALSE, accounts |-> {}]

\* initialize_database_and_accounts returns the DatabaseManager, or None when opening
\* the Ledger raised
initialize_database_and_accounts(db_ok) == db_ok

\* load_pocket_option_accounts_from_db: the enabled accounts; a read that raises is
\* answered by the empty list
load_pocket_option_accounts_from_db(read_ok, enabled) ==
    IF read_ok THEN enabled ELSE {}

\* main: db = initialize_database_and_accounts(); if not db: exit(1)
main_database(db_ok) ==
    /\ boot.stage = "start"
    /\ boot' = IF initialize_database_and_accounts(db_ok)
               THEN [boot EXCEPT !.stage = "database", !.db = TRUE]
               ELSE [boot EXCEPT !.stage = "terminated"]
    /\ UNCHANGED <<buyCall, cfg, lanes, tradesDb, saved, pending, active, nextId, orders,
                   active_trades, lstate, lock, lpending, respQ, processed,
                   applied, timedOut, repeated, scen, held, conn, written,
                   cmdQ, calls, nextReq, returned, alive, sendErrors, tmThreads>>

\* main: the accounts are loaded; an empty list is answered by a warning
main_accounts(read_ok, enabled) ==
    /\ boot.stage = "database"
    /\ boot' = [boot EXCEPT !.stage = "accounts",
                            !.accounts = load_pocket_option_accounts_from_db(read_ok, enabled)]
    /\ UNCHANGED <<buyCall, cfg, lanes, tradesDb, saved, pending, active, nextId, orders,
                   active_trades, lstate, lock, lpending, respQ, processed,
                   applied, timedOut, repeated, scen, held, conn, written,
                   cmdQ, calls, nextReq, returned, alive, sendErrors, tmThreads>>

\* main: the workers are started and asked for their balance; connected are those that
\* answered. exit(1) when there are enabled accounts and none of them connected
main_workers(connected) ==
    /\ boot.stage = "accounts"
    /\ connected \subseteq boot.accounts
    /\ boot' = IF boot.accounts # {} /\ Cardinality(connected) = 0
               THEN [boot EXCEPT !.stage = "terminated"]
               ELSE [boot EXCEPT !.stage = "workers"]
    /\ UNCHANGED <<buyCall, cfg, lanes, tradesDb, saved, pending, active, nextId, orders,
                   active_trades, lstate, lock, lpending, respQ, processed,
                   applied, timedOut, repeated, scen, held, conn, written,
                   cmdQ, calls, nextReq, returned, alive, sendErrors, tmThreads>>

\* main: start_signal_detector; exit(1) when it did not start, otherwise the bot is
\* listening for signals
main_detector(telethon_started) ==
    /\ boot.stage = "workers"
    /\ boot' = IF telethon_started
               THEN [boot EXCEPT !.stage = "listening"]
               ELSE [boot EXCEPT !.stage = "terminated"]
    /\ UNCHANGED <<buyCall, cfg, lanes, tradesDb, saved, pending, active, nextId, orders,
                   active_trades, lstate, lock, lpending, respQ, processed,
                   applied, timedOut, repeated, scen, held, conn, written,
                   cmdQ, calls, nextReq, returned, alive, sendErrors, tmThreads>>

InitStartup ==
    /\ InitProgram
    /\ boot = Starting

\* The startup of the bot, and the trading that follows a startup which found the Ledger
\* and both accounts.
NextStartup ==
    \/ \E db_ok \in BOOLEAN : main_database(db_ok)
    \/ \E read_ok \in BOOLEAN, enabled \in SUBSET Accounts : main_accounts(read_ok, enabled)
    \/ \E connected \in SUBSET Accounts : main_workers(connected)
    \/ \E telethon_started \in BOOLEAN : main_detector(telethon_started)
    \/ \E sig \in Signals, buy_ok \in BOOLEAN :
           boot = Listening /\ tm_execute(sig[1], sig[2], buy_ok)
    \/ \E t \in 1..MaxTrades, status \in {"unknown", "win", "loose"} :
           boot = Listening /\ tm_check(t, status)
    \/ \E t \in 1..MaxTrades : boot = Listening /\ tm_timeout(t)

SpecStartup == InitStartup /\ [][NextStartup]_vars

\* C38: the bot reaches the listening stage only with the Ledger initialised and at
\* least one enabled account loaded; otherwise the startup has terminated.
C38_NoPartialStartup ==
    boot.stage = "listening" => (boot.db /\ boot.accounts # {})

\* C39: the engine's active flag of an account is true exactly when a trade of that
\* account is registered as pending: every placed trade sets it, and a result does not
\* clear it while another trade of the account is pending.
C39_ActiveIffPending ==
    \A a \in Accounts :
        active[a] <=> (\E p \in pending : p.account = a)

\* ------------------------------------------------ worker: one buy command in steps
\* str(e).lower() of the TimeoutError timeout_api_call raises:
\* "api call timed out after 8 seconds"
TimeoutErrorText ==
    <<"a", "p", "i", " ", "c", "a", "l", "l", " ", "t", "i", "m", "e", "d", " ", "o", "u", "t", " ", "a", "f", "t", "e", "r", " ", "8", " ", "s", "e", "c", "o", "n", "d", "s">>

\* str(e).lower() of the exceptions api.buy raises itself: "connection lost" and
\* "invalid asset"
ApiErrorTexts ==
    {<<"c", "o", "n", "n", "e", "c", "t", "i", "o", "n", " ", "l", "o", "s", "t">>,
     <<"i", "n", "v", "a", "l", "i", "d", " ", "a", "s", "s", "e", "t">>}

\* ['ssl', 'connection', 'protocol', 'socket', 'network', 'timeout']
retry_keywords ==
    {<<"s", "s", "l">>,
     <<"c", "o", "n", "n", "e", "c", "t", "i", "o", "n">>,
     <<"p", "r", "o", "t", "o", "c", "o", "l">>,
     <<"s", "o", "c", "k", "e", "t">>,
     <<"n", "e", "t", "w", "o", "r", "k">>,
     <<"t", "i", "m", "e", "o", "u", "t">>}

\* keyword in error_str
Contains(error_str, keyword) ==
    \E i \in 1..(Len(error_str) - Len(keyword) + 1) :
        SubSeq(error_str, i, i + Len(keyword) - 1) = keyword

\* the mutation: every exception of an attempt is answered by another attempt
RetriesEveryError(error_str) == TRUE

\* any(keyword in error_str for keyword in [...])
IsConnectionError(error_str) ==
    \E keyword \in retry_keywords : Contains(error_str, keyword)

\* max_retries = 2
max_retries == 2

\* What one api.buy call does within the 8 seconds timeout_api_call waits for it: it
\* returns with the order placed or refused, it raises without an order, or it is still
\* running.
BuyOutcomes ==
    [kind : {"returns"}, ok : BOOLEAN, text : {<< >>}]
        \cup [kind : {"raises"}, ok : {FALSE}, text : ApiErrorTexts]
        \cup [kind : {"hangs"}, ok : {FALSE}, text : {<< >>}]

\* the worker's main loop takes a buy command off its command queue
buy_begin(a) ==
    /\ alive[a]
    /\ buyCall.request = NoRequest
    /\ cmdQ[a] # << >>
    /\ Head(cmdQ[a]).action = "buy"
    /\ buyCall' = [buyCall EXCEPT !.request = Head(cmdQ[a]).request_id, !.attempt = 0]
    /\ cmdQ' = [cmdQ EXCEPT ![a] = Tail(@)]
    /\ UNCHANGED <<cfg, lanes, tradesDb, saved, pending, active, nextId, orders,
                   active_trades, lstate, lock, lpending, respQ, processed,
                   applied, timedOut, repeated, scen, held, conn, written,
                   calls, nextReq, returned, alive, sendErrors, tmThreads, boot>>

\* one pass of 'for attempt in range(max_retries)': timeout_api_call(api.buy, 8) and
\* the handling of what it returned or raised. A call still running after 8 seconds is
\* left running in its thread and TimeoutError is raised in its place.
buy_attempt(a, outcome) ==
    /\ alive[a]
    /\ buyCall.request # NoRequest
    /\ (outcome.kind = "returns" /\ outcome.ok) => nextId <= MaxTrades
    /\ LET r == buyCall.request
           placed == outcome.kind = "returns" /\ outcome.ok
           error_str == IF outcome.kind = "hangs" THEN TimeoutErrorText ELSE outcome.text
           again == /\ outcome.kind # "returns"
                    /\ IsConnectionError(error_str)
                    /\ buyCall.attempt < max_retries - 1
           threads == IF outcome.kind = "hangs"
                      THEN buyCall.abandoned \cup {[request |-> r, attempt |-> buyCall.attempt]}
                      ELSE buyCall.abandoned
       IN  /\ buyCall' = [buyCall EXCEPT
                  !.request = IF again THEN r ELSE NoRequest,
                  !.attempt = IF again THEN @ + 1 ELSE 0,
                  !.abandoned = threads,
                  !.placed = IF placed THEN [@ EXCEPT ![r.id] = @ + 1] ELSE @]
           /\ orders' = IF placed THEN [orders EXCEPT ![nextId] = NewOrder(a, "none")]
                         ELSE orders
           /\ tradesDb' = IF placed THEN [tradesDb EXCEPT ![nextId] = "pending"]
                           ELSE tradesDb
           /\ nextId' = IF placed THEN nextId + 1 ELSE nextId
           /\ respQ' = IF again THEN respQ
                       ELSE [respQ EXCEPT ![a] =
                          Append(@, IF placed
                                    THEN Frame(r, "success", nextId, "")
                                    ELSE IF outcome.kind = "returns"
                                    THEN [request_id |-> r, status |-> "error",
                                          message |-> "Buy command failed"]
                                    ELSE IF IsConnectionError(error_str)
                                    THEN [request_id |-> r, status |-> "error",
                                          message |-> "Connection error after attempts"]
                                    ELSE [request_id |-> r, status |-> "error",
                                          message |-> "Trade execution error"])]
    /\ UNCHANGED <<cfg, lanes, saved, pending, active,
                   active_trades, lstate, lock, lpending, processed,
                   applied, timedOut, repeated, scen, held, conn, written,
                   cmdQ, calls, nextReq, returned, alive, sendErrors, tmThreads, boot>>

\* the api.buy call of an abandoned attempt comes to its end in its thread: the broker
\* has taken the order or not, result[0] is read by nobody
buy_thread_returns(a, th, ok) ==
    /\ alive[a]
    /\ th \in buyCall.abandoned
    /\ ok => nextId <= MaxTrades
    /\ buyCall' = [buyCall EXCEPT
           !.abandoned = @ \ {th},
           !.placed = IF ok THEN [@ EXCEPT ![th.request.id] = @ + 1] ELSE @,
           !.late = IF ok THEN @ \cup {th.request.id} ELSE @]
    /\ orders' = IF ok THEN [orders EXCEPT ![nextId] = NewOrder(a, "none")] ELSE orders
    /\ nextId' = IF ok THEN nextId + 1 ELSE nextId
    /\ UNCHANGED <<cfg, lanes, tradesDb, saved, pending, active,
                   active_trades, lstate, lock, lpending, respQ, processed,
                   applied, timedOut, repeated, scen, held, conn, written,
                   cmdQ, calls, nextReq, returned, alive, sendErrors, tmThreads, boot>>

\* One worker serving buy commands, attempt by attempt.
NextBuy ==
    \/ \E a \in ChannelWorkers : send_command_buy(a, ScenSymbol)
    \/ \E a \in ChannelWorkers : buy_begin(a)
    \/ \E a \in ChannelWorkers, outcome \in BuyOutcomes : buy_attempt(a, outcome)
    \/ \E a \in ChannelWorkers, th \in buyCall.abandoned, ok \in BOOLEAN :
          buy_thread_returns(a, th, ok)
    \/ \E c \in calls : send_command_get(c)
    \/ \E c \in calls : send_command_timeout(c)

SpecBuy == InitChannel /\ [][NextBuy]_vars

====
